---- MODULE Spec2Model ----
(***************************************************************************)
(* Model of the bracket-scoring engine of the MTG Commander bracket        *)
(* analyzer: DeckAnalyzer.analyze_deck (src/deck_analyzer.py), its signal  *)
(* detectors, ThemeDetector.get_bracket1_likelihood                        *)
(* (src/theme_detector.py) and the bracket decision procedure              *)
(* DeckAnalyzer._calculate_bracket_enhanced, which is modelled one         *)
(* evaluation block per action so that the running bracket value and the   *)
(* growing reason list are observable between the blocks.                  *)
(*                                                                         *)
(* Numbers.  tutor_score is a float that is always a multiple of 0.5 (the  *)
(* tier weights are 3.0, 2.0, 1.0 and 0.5); the model keeps it in half     *)
(* points, so a threshold t of the code is compared as 2 * t.  The mean    *)
(* mana value is kept in hundredths (the code rounds it to 2 places).      *)
(* restriction_score and synergy_score are floats that the code only       *)
(* compares against whole-number thresholds; the model draws whole numbers *)
(* on both sides of every threshold.                                       *)
(***************************************************************************)
EXTENDS Integers, Sequences, FiniteSets, Bags, TLC

VARIABLES
    decklist,  \* analyze_deck: decklist_text, as its lines
    resolver,  \* ScryfallClient.get_cards_bulk: whether the batch request
               \* succeeds, and the card names Scryfall knows
    intake,    \* analyze_deck: the locals of steps 1-5 and the returned
               \* DeckAnalysis fields that come from them
    ret,       \* the value returned by a function that is run on its own
    deck,      \* analyze_deck: all_cards, a list of entries [name, quantity]
               \* (name: the card's Scryfall name, quantity: its _quantity);
               \* the other card data is looked up by name
    env,       \* analyze_deck: what the collaborators and the detectors that
               \* read oracle text and metadata return for all_cards
    analysis,  \* analyze_deck: the locals computed so far
    args,      \* _calculate_bracket_enhanced: the arguments of the call
    pc,        \* position in analyze_deck / _calculate_bracket_enhanced
    bracket,   \* _calculate_bracket_enhanced: the running bracket value
    reasons,   \* _calculate_bracket_enhanced: the reason list
    lines      \* _generate_fallback_analysis: the rendered reason lines

vars ==
    <<decklist, resolver, intake, ret, deck, env, analysis, args, pc, bracket,
      reasons, lines>>

Max(a, b) == IF a >= b THEN a ELSE b
Min(a, b) == IF a <= b THEN a ELSE b

None == "None"

(***************************************************************************)
(* Policy constants: BRACKET_SCORING (src/config.py) and the literals of   *)
(* _calculate_bracket_enhanced.                                            *)
(***************************************************************************)
TutorBracket3Threshold == 6
TutorBracket4Threshold == 12
FastManaBracket4Threshold == 4
FastManaBracket3Threshold == 2
FastManaCedhThreshold == 6
FreeInteractionCedhThreshold == 3
StaplesBracket3Threshold == 5
StaplesBracket4Threshold == 10
CedhSignalThreshold == 12
AvgCmcCedh == 200
AvgCmcOptimized == 250
LandsCedhMax == 31
Bracket1OverrideThreshold == 70
Bracket1AdvisoryThreshold == 50
LowSynergyNote == 20
BaselineBracket == 2

(***************************************************************************)
(* Commander Spellbook: BRACKET_TAG_MAP and the neutral / computed         *)
(* combo_data of DeckAnalyzer._fetch_combos.  A Spellbook answer holds the *)
(* bracket tags of the included and of the almost-included combos.  The    *)
(* lookup fails when the client cannot be imported ("unavailable"), when   *)
(* the call raises ("raised") and when find_combos returns None ("no       *)
(* result"); answered is TRUE otherwise.                                   *)
(***************************************************************************)
\* Mutant of BracketTagMap: "PW" (Powerful) mapped to bracket 4 like "R".
BracketTagMapPowerfulFour(tag) ==
    CASE tag = "R"  -> 4
      [] tag = "S"  -> 3
      [] tag = "PW" -> 4
      [] tag = "O"  -> 2
      [] tag = "PA" -> 2
      [] tag = "C"  -> 1
      [] OTHER      -> 2

BracketTagMap(tag) ==
    CASE tag = "R"  -> 4
      [] tag = "S"  -> 3
      [] tag = "PW" -> 3
      [] tag = "O"  -> 2
      [] tag = "PA" -> 2
      [] tag = "C"  -> 1
      [] OTHER      -> 2

NeutralComboData ==
    [included |-> <<>>, almost_included |-> <<>>, combo_count |-> 0,
     has_cedh_combos |-> FALSE, cedh_combo_count |-> 0, bracket_impact |-> 0]

RECURSIVE ProcessIncluded(_, _)
ProcessIncluded(result, included) ==
    IF included = <<>> THEN result
    ELSE LET tag == Head(included)
             r1  == IF tag = "R"
                    THEN [result EXCEPT !.has_cedh_combos = TRUE,
                                        !.cedh_combo_count = @ + 1]
                    ELSE result
             r2  == [r1 EXCEPT !.included = Append(@, tag),
                               !.bracket_impact = Max(@, BracketTagMap(tag))]
         IN  ProcessIncluded(r2, Tail(included))

\* Mutant of FetchCombos: a failed lookup is read like an answer.
FetchCombosIgnoringFailure(spellbook) ==
    [ProcessIncluded([NeutralComboData EXCEPT
                          !.combo_count = Len(spellbook.included)],
                     spellbook.included)
        EXCEPT !.almost_included =
                   SubSeq(spellbook.almost_included, 1,
                          Min(10, Len(spellbook.almost_included)))]

FetchCombos(spellbook) ==
    IF spellbook.failure = "unavailable" THEN NeutralComboData
    ELSE IF spellbook.failure = "raised" THEN NeutralComboData
    ELSE IF ~spellbook.answered THEN NeutralComboData
    ELSE [ProcessIncluded([NeutralComboData EXCEPT
                               !.combo_count = Len(spellbook.included)],
                          spellbook.included)
             EXCEPT !.almost_included =
                        SubSeq(spellbook.almost_included, 1,
                               Min(10, Len(spellbook.almost_included)))]

(***************************************************************************)
(* _calculate_bracket_enhanced, one operator per evaluation block.  Each   *)
(* takes the arguments a and the running value s = [bracket, reasons] and  *)
(* returns the value after the block.  A reason is <<text, number>>: the   *)
(* text identifies the f-string, the number is the value formatted into it *)
(* (0 where the text has none).                                            *)
(***************************************************************************)
Say(s, rs) == [s EXCEPT !.reasons = @ \o rs]

Raise(s, floor, rs) ==
    [bracket |-> Max(s.bracket, floor), reasons |-> s.reasons \o rs]

\* Mutant of ThemeCheck: the override is taken from the advisory threshold on.
ThemeCheckOverrideAtAdvisory(a, s) ==
    IF ~a.has_mass_ld /\ a.bracket1_likelihood >= Bracket1AdvisoryThreshold
    THEN [bracket |-> 1,
          reasons |-> s.reasons
              \o << <<"Theme deck detected", 0>>,
                    <<"Bracket 1 likelihood", a.bracket1_likelihood>> >>]
    ELSE s

ThemeCheck(a, s) ==
    IF ~a.has_mass_ld /\ a.bracket1_likelihood >= Bracket1OverrideThreshold
    THEN [bracket |-> 1,
          reasons |-> s.reasons
              \o << <<"Theme deck detected", 0>>,
                    <<"Bracket 1 likelihood", a.bracket1_likelihood>> >>
              \o (IF a.game_changers_count > 0
                  THEN << <<"Game Changer(s) may be thematic exceptions",
                            a.game_changers_count>> >>
                  ELSE <<>>)
              \o (IF a.synergy_score < LowSynergyNote
                  THEN << <<"Low synergy suggests restricted card pool",
                            a.synergy_score>> >>
                  ELSE <<>>)]
    ELSE IF ~a.has_mass_ld /\ a.bracket1_likelihood >= Bracket1AdvisoryThreshold
    THEN Say(s, << <<"Possible theme deck", a.bracket1_likelihood>> >>
              \o (IF a.restriction_description # None
                  THEN << <<"Detected", 0>> >>
                  ELSE <<>>)
              \o (IF a.game_changers_count > 0
                  THEN << <<"Game Changer(s) - verify if thematic",
                            a.game_changers_count>> >>
                  ELSE <<>>))
    ELSE s

\* Mutant of CedhCheck: the threshold must be exceeded, not met.
CedhCheckStrict(a, s) ==
    IF a.cedh_signals > CedhSignalThreshold
    THEN [bracket |-> 5,
          reasons |-> s.reasons
              \o << <<"cEDH signals detected", a.cedh_signals>>,
                    <<"Deck appears optimized for competitive play", 0>> >>]
    ELSE s

CedhCheck(a, s) ==
    IF a.cedh_signals >= CedhSignalThreshold
    THEN [bracket |-> 5,
          reasons |-> s.reasons
              \o << <<"cEDH signals detected", a.cedh_signals>>,
                    <<"Deck appears optimized for competitive play", 0>> >>]
    ELSE s

ComboAnalysis(a, s) ==
    LET cd == a.combo_data
        s1 == IF cd.has_cedh_combos
              THEN Raise(s, 4, << <<"cEDH-level combo(s)", cd.cedh_combo_count>> >>)
              ELSE s
    IN  IF cd.bracket_impact >= 4 /\ cd.combo_count > 0
        THEN Raise(s1, 4, << <<"verified combo(s) with bracket impact",
                               cd.combo_count>> >>)
        ELSE IF cd.combo_count >= 2
        THEN Raise(s1, 3, << <<"verified combo(s)", cd.combo_count>> >>)
        ELSE IF cd.combo_count = 1
        THEN Say(s1, << <<"Has 1 verified combo", 0>> >>)
        ELSE Say(s1, << <<"Verified combos found", cd.combo_count>> >>)

GameChangersCheck(a, s) ==
    IF a.game_changers_count > 3
    THEN Raise(s, 4, << <<"Game Changers (>3 requires Bracket 4+)",
                          a.game_changers_count>> >>)
    ELSE IF a.game_changers_count > 0
    THEN Raise(s, 3, << <<"Game Changer(s) (requires Bracket 3+)",
                          a.game_changers_count>> >>)
    ELSE s

\* Mutant of MassLandDenialCheck: the floor is 3 instead of 4.
MassLandDenialFloorThree(a, s) ==
    IF a.has_mass_ld
    THEN Raise(s, 3, << <<"Contains mass land denial", 0>> >>)
    ELSE s

MassLandDenialCheck(a, s) ==
    IF a.has_mass_ld
    THEN Raise(s, 4, << <<"Contains mass land denial", 0>> >>)
    ELSE s

ExtraTurnsCheck(a, s) ==
    IF a.extra_turn_count >= 3
    THEN Raise(s, 4, << <<"extra turn cards (high density)", a.extra_turn_count>> >>)
    ELSE IF a.extra_turn_count >= 1
    THEN Raise(s, 3, << <<"extra turn card(s)", a.extra_turn_count>> >>)
    ELSE s

TutorScoreCheck(a, s) ==
    IF a.tutor_score >= 2 * TutorBracket4Threshold
    THEN Raise(s, 4, << <<"High tutor density", a.tutor_score>> >>)
    ELSE IF a.tutor_score >= 2 * TutorBracket3Threshold
    THEN Raise(s, 3, << <<"Moderate tutor density", a.tutor_score>> >>)
    ELSE s

FastManaCheck(a, s) ==
    IF a.fast_mana_count >= FastManaBracket4Threshold
    THEN Raise(s, 4, << <<"High fast mana count", a.fast_mana_count>> >>)
    ELSE IF a.fast_mana_count >= FastManaBracket3Threshold
    THEN Raise(s, 3, << <<"fast mana pieces", a.fast_mana_count>> >>)
    ELSE s

\* Mutant of StaplesCheck: the reason is inserted at the head of the list.
StaplesCheckInsertFirst(a, s) ==
    IF a.staple_count >= StaplesBracket4Threshold
    THEN [bracket |-> Max(s.bracket, 4),
          reasons |-> << <<"High staple density", a.staple_count>> >> \o s.reasons]
    ELSE IF a.staple_count >= StaplesBracket3Threshold
    THEN [bracket |-> Max(s.bracket, 3),
          reasons |-> << <<"high-power staples", a.staple_count>> >> \o s.reasons]
    ELSE s

StaplesCheck(a, s) ==
    IF a.staple_count >= StaplesBracket4Threshold
    THEN Raise(s, 4, << <<"High staple density", a.staple_count>> >>)
    ELSE IF a.staple_count >= StaplesBracket3Threshold
    THEN Raise(s, 3, << <<"high-power staples", a.staple_count>> >>)
    ELSE s

\* Mutant of ComboArchetypeCheck: the bracket is assigned, not raised.
ComboArchetypeAssign(a, s) ==
    IF "combo" \in a.archetypes
    THEN [bracket |-> 3, reasons |-> s.reasons \o << <<"Deck has combo elements", 0>> >>]
    ELSE s

ComboArchetypeCheck(a, s) ==
    IF "combo" \in a.archetypes /\ s.bracket < 3
    THEN Raise(s, 3, << <<"Deck has combo elements", 0>> >>)
    ELSE s

\* Mutant of DefaultExplanation: the test is bracket <= 2.
DefaultExplanationAtMostTwo(a, s) ==
    IF s.bracket <= 2
    THEN Say(s, << <<"No significant power indicators found", 0>>,
                   <<"Deck appears to be at precon power level", 0>> >>)
    ELSE s

DefaultExplanation(a, s) ==
    IF s.bracket = 2
    THEN Say(s, << <<"No significant power indicators found", 0>>,
                   <<"Deck appears to be at precon power level", 0>> >>)
    ELSE s

StartOfCall == [bracket |-> BaselineBracket, reasons |-> <<>>]

\* The whole call: the blocks in the order of the source.
CalculateBracketEnhanced(a) ==
    DefaultExplanation(a,
     ComboArchetypeCheck(a,
      StaplesCheck(a,
       FastManaCheck(a,
        TutorScoreCheck(a,
         ExtraTurnsCheck(a,
          MassLandDenialCheck(a,
           GameChangersCheck(a,
            ComboAnalysis(a,
             CedhCheck(a,
              ThemeCheck(a, StartOfCall)))))))))))

(***************************************************************************)
(* Card data.  ScryfallCards are the cards the model knows: their names as *)
(* Scryfall spells them, their type lines (the words, without the dash)    *)
(* and their mana values in tenths.  Lower is str.lower() on the names,    *)
(* the decklist spellings and the type words that occur.                   *)
(***************************************************************************)
CorePool ==
    {"Armageddon", "Time Warp", "Rhystic Study", "Sol Ring", "Demonic Tutor"}
FreeSpells ==
    {"Pact of Negation", "Mental Misstep", "Misdirection", "Commandeer",
     "Submerge"}
CardPool == CorePool \cup FreeSpells
DoubleFaced == "Bala Ged Recovery // Bala Ged Sanctuary"
ScryfallCards ==
    CardPool \cup
    {"Cyclonic Rift", "Island", "Solemn Simulacrum", "Dryad Arbor",
     "Seat of the Synod", "Urza's Saga", "Mystical Teachings", "Liliana Vess",
     "Tomb of Annihilation", "Demonic Consultation", "Tainted Pact",
     "Sarkhan's Triumph", "Dimir Machinations", "Relentless Rats",
     "Seven Dwarves", DoubleFaced}

Lower(name) ==
    CASE name = "Armageddon"    -> "armageddon"
      [] name = "Time Warp"     -> "time warp"
      [] name = "Rhystic Study" -> "rhystic study"
      [] name = "Sol Ring"      -> "sol ring"
      [] name = "SOL RING"      -> "sol ring"
      [] name = "Demonic Tutor" -> "demonic tutor"
      [] name = "Pact of Negation" -> "pact of negation"
      [] name = "Mental Misstep" -> "mental misstep"
      [] name = "Misdirection"  -> "misdirection"
      [] name = "Commandeer"    -> "commandeer"
      [] name = "Submerge"      -> "submerge"
      [] name = "Cyclonic Rift" -> "cyclonic rift"
      [] name = "Island"        -> "island"
      [] name = "Solemn Simulacrum" -> "solemn simulacrum"
      [] name = "Dryad Arbor"   -> "dryad arbor"
      [] name = "Seat of the Synod" -> "seat of the synod"
      [] name = "Urza's Saga"   -> "urza's saga"
      [] name = "Mystical Teachings" -> "mystical teachings"
      [] name = "Liliana Vess"  -> "liliana vess"
      [] name = "Tomb of Annihilation" -> "tomb of annihilation"
      [] name = "Demonic Consultation" -> "demonic consultation"
      [] name = "Tainted Pact"  -> "tainted pact"
      [] name = "Sarkhan's Triumph" -> "sarkhan's triumph"
      [] name = "Dimir Machinations" -> "dimir machinations"
      [] name = "Relentless Rats" -> "relentless rats"
      [] name = "Seven Dwarves" -> "seven dwarves"
      [] name = "Storm Crow Typo" -> "storm crow typo"
      [] name = DoubleFaced     -> "bala ged recovery // bala ged sanctuary"
      [] name = "Artifact"      -> "artifact"
      [] name = "Creature"      -> "creature"
      [] name = "Instant"       -> "instant"
      [] name = "Sorcery"       -> "sorcery"
      [] name = "Enchantment"   -> "enchantment"
      [] name = "Land"          -> "land"
      [] name = "Planeswalker"  -> "planeswalker"
      [] name = "Basic"         -> "basic"
      [] name = "Legendary"     -> "legendary"
      [] name = "Dungeon"       -> "dungeon"
      [] OTHER                  -> name

\* card["type_line"]
TypeLine(name) ==
    CASE name \in {"Sol Ring"} -> <<"Artifact">>
      [] name = "Solemn Simulacrum" -> <<"Artifact", "Creature">>
      [] name = "Dryad Arbor" -> <<"Land", "Creature">>
      [] name = "Seat of the Synod" -> <<"Artifact", "Land">>
      [] name = "Urza's Saga" -> <<"Enchantment", "Land">>
      [] name \in {"Relentless Rats", "Seven Dwarves"} -> <<"Creature">>
      [] name \in {"Armageddon", "Time Warp", "Demonic Tutor",
                   "Dimir Machinations"} -> <<"Sorcery">>
      [] name = "Rhystic Study" -> <<"Enchantment">>
      [] name = "Island" -> <<"Basic", "Land">>
      [] name = "Liliana Vess" -> <<"Legendary", "Planeswalker">>
      [] name = "Tomb of Annihilation" -> <<"Dungeon">>
      [] name = DoubleFaced -> <<"Sorcery", "//", "Land">>
      [] name \in FreeSpells \cup
                  {"Cyclonic Rift", "Mystical Teachings", "Demonic Consultation",
                   "Tainted Pact", "Sarkhan's Triumph"} -> <<"Instant">>
      [] OTHER -> <<>>

\* card.get("cmc", 4), in tenths.
Cmc(name) ==
    CASE name \in {"Island", "Dryad Arbor", "Seat of the Synod", "Urza's Saga",
                   "Pact of Negation", "Tomb of Annihilation"} -> 0
      [] name \in {"Sol Ring", "Mental Misstep", "Demonic Consultation"} -> 10
      [] name \in {"Demonic Tutor", "Cyclonic Rift", "Tainted Pact",
                   "Seven Dwarves"} -> 20
      [] name \in {"Rhystic Study", "Sarkhan's Triumph", "Dimir Machinations",
                   "Relentless Rats", DoubleFaced} -> 30
      [] name \in {"Armageddon", "Solemn Simulacrum", "Mystical Teachings"} -> 40
      [] name \in {"Time Warp", "Misdirection", "Submerge", "Liliana Vess"} -> 50
      [] name = "Commandeer" -> 70
      [] OTHER -> 40

\* name.split(" // ")[0]
FrontFace(name) ==
    IF name = DoubleFaced THEN "Bala Ged Recovery" ELSE name

\* " // " in name
HasFaces(name) == name = DoubleFaced

\* "x" in type_line.lower(), for a type word x
TypeLineHas(name, word) ==
    \E i \in 1..Len(TypeLine(name)) : Lower(TypeLine(name)[i]) = word

(***************************************************************************)
(* Card lists of src/config.py, restricted to ScryfallCards.  The lists    *)
(* hold the names as config.py spells them; every detector lowercases both *)
(* sides.  game_changers_set is the official list, of which GAME_CHANGERS  *)
(* is the copy kept in config.py.                                          *)
(***************************************************************************)
GAME_CHANGERS == {"Rhystic Study", "Demonic Tutor", "Cyclonic Rift"}
MASS_LAND_DENIAL == {"Armageddon"}
EXTRA_TURN_CARDS == {"Time Warp"}
FAST_MANA == {"Sol Ring"}
FREE_INTERACTION == FreeSpells
COMPETITIVE_STAX == {}
HIGH_POWER_STAPLES == {"Rhystic Study", "Cyclonic Rift"}
TUTORS_PREMIUM == {"Demonic Tutor", "Dimir Machinations"}
TUTORS_EFFICIENT == {"Urza's Saga"}
TUTORS_STANDARD == {}
TUTORS_SLOW == {"Liliana Vess"}
UNLIMITED_COPIES_CARDS == {"relentless rats"}
LIMITED_COPIES_CARDS == [n \in {"seven dwarves"} |-> 7]
BASIC_LAND_NAMES == {"island"}

LowerAll(names) == {Lower(n) : n \in names}

\* [card.get("name") for card in cards]
Names(cards) == [i \in 1..Len(cards) |-> cards[i].name]

\* DeckAnalyzer._find_cards_by_name: the names of the entries whose
\* lowercased name is in the lowercased target list, in deck order.
FindCardsByName(cards, target_list) ==
    Names(SelectSeq(cards, LAMBDA c : Lower(c.name) \in LowerAll(target_list)))

\* Mutant of FindGameChangers: the names are looked up in HIGH_POWER_STAPLES.
FindGameChangersAmongStaples(cards) ==
    Names(SelectSeq(cards, LAMBDA c : Lower(c.name) \in LowerAll(HIGH_POWER_STAPLES)))

\* DeckAnalyzer.game_changers_set / _find_game_changers.
FindGameChangers(cards) ==
    Names(SelectSeq(cards, LAMBDA c : Lower(c.name) \in LowerAll(GAME_CHANGERS)))

\* DeckAnalyzer._find_power_level_cards.
FindPowerLevelCards(cards) ==
    [fast_mana          |-> FindCardsByName(cards, FAST_MANA),
     free_interaction   |-> FindCardsByName(cards, FREE_INTERACTION),
     high_power_staples |-> FindCardsByName(cards, HIGH_POWER_STAPLES),
     competitive_stax   |-> FindCardsByName(cards, COMPETITIVE_STAX)]

\* DeckAnalyzer.fetch_non_ramp_tutors when the tag search answers: the cards
\* Scryfall tags as tutors, name -> cmc (tenths).  The double-faced card is
\* listed under its front face.
ScryfallTutors ==
    [n \in {"Demonic Tutor", "Dimir Machinations", "Urza's Saga",
            "Liliana Vess", "Demonic Consultation", "Tainted Pact",
            "Sarkhan's Triumph", "Mystical Teachings", "Bala Ged Recovery"}
       |-> IF n = "Bala Ged Recovery" THEN 30 ELSE Cmc(n)]

\* DeckAnalyzer._build_fallback_tutor_dict: the curated names with the cmc
\* estimated for their tier (1.5, 2.5, 3.5, 5.0).
BuildFallbackTutorDict ==
    [n \in TUTORS_PREMIUM \cup TUTORS_EFFICIENT \cup TUTORS_STANDARD
            \cup TUTORS_SLOW
       |-> IF n \in TUTORS_SLOW THEN 50
           ELSE IF n \in TUTORS_STANDARD THEN 35
           ELSE IF n \in TUTORS_EFFICIENT THEN 25
           ELSE 15]

\* DeckAnalyzer.fetch_non_ramp_tutors
FetchNonRampTutors(api_success) ==
    IF api_success THEN ScryfallTutors ELSE BuildFallbackTutorDict

\* DeckAnalyzer._classify_tutors: is the card a tutor.
IsTutor(name, scryfall_tutors) ==
    \/ name \in DOMAIN scryfall_tutors
    \/ HasFaces(name) /\ FrontFace(name) \in DOMAIN scryfall_tutors

\* Mutant of TutorTier: the curated lists are not consulted.
TutorTierByCmcOnly(name, scryfall_tutors) ==
    LET cmc == IF name \in DOMAIN scryfall_tutors
               THEN scryfall_tutors[name] ELSE Cmc(name)
    IN  IF cmc <= 10 THEN "premium"
        ELSE IF cmc <= 20 THEN "efficient"
        ELSE IF cmc <= 30 THEN "standard"
        ELSE "slow"

\* DeckAnalyzer._classify_tutors: the tier list a tutor is appended to.
TutorTier(name, scryfall_tutors) ==
    IF Lower(name) \in LowerAll(TUTORS_PREMIUM) THEN "premium"
    ELSE IF Lower(name) \in LowerAll(TUTORS_EFFICIENT) THEN "efficient"
    ELSE IF Lower(name) \in LowerAll(TUTORS_STANDARD) THEN "standard"
    ELSE IF Lower(name) \in LowerAll(TUTORS_SLOW) THEN "slow"
    ELSE LET cmc == IF name \in DOMAIN scryfall_tutors
                    THEN scryfall_tutors[name] ELSE Cmc(name)
         IN  IF cmc <= 10 THEN "premium"
             ELSE IF cmc <= 20 THEN "efficient"
             ELSE IF cmc <= 30 THEN "standard"
             ELSE "slow"

\* DeckAnalyzer._classify_tutors
ClassifyTutors(cards, scryfall_tutors) ==
    LET tier(t) ==
            Names(SelectSeq(cards,
                LAMBDA c : /\ IsTutor(c.name, scryfall_tutors)
                           /\ TutorTier(c.name, scryfall_tutors) = t))
    IN  [premium |-> tier("premium"), efficient |-> tier("efficient"),
         standard |-> tier("standard"), slow |-> tier("slow")]

\* DeckAnalyzer._calculate_tutor_score, in half points (3.0, 2.0, 1.0, 0.5).
CalculateTutorScore(tb) ==
    6 * Len(tb.premium) + 4 * Len(tb.efficient)
      + 2 * Len(tb.standard) + 1 * Len(tb.slow)

(***************************************************************************)
(* count_cards_with_quantity and DeckAnalyzer._categorize_cards.  An entry *)
(* made by analyze_deck has a quantity; an entry from elsewhere may have   *)
(* none (card.get("_quantity", 1)).                                        *)
(***************************************************************************)
Quantity(card) == IF "quantity" \in DOMAIN card THEN card.quantity ELSE 1

\* Mutant of CountCardsWithQuantity: the number of entries.
CountEntries(cards) == Len(cards)

RECURSIVE CountCardsWithQuantity(_)
CountCardsWithQuantity(cards) ==
    IF cards = <<>> THEN 0
    ELSE Quantity(Head(cards)) + CountCardsWithQuantity(Tail(cards))

\* Mutant of Category: artifact is tested before creature.
CategoryArtifactFirst(name) ==
    IF TypeLineHas(name, "artifact") THEN "artifacts"
    ELSE IF TypeLineHas(name, "creature") THEN "creatures"
    ELSE IF TypeLineHas(name, "instant") THEN "instants"
    ELSE IF TypeLineHas(name, "sorcery") THEN "sorceries"
    ELSE IF TypeLineHas(name, "enchantment") THEN "enchantments"
    ELSE IF TypeLineHas(name, "land") THEN "lands"
    ELSE IF TypeLineHas(name, "planeswalker") THEN "planeswalkers"
    ELSE "other"

\* DeckAnalyzer._categorize_cards: the if / elif chain on the type line.
Category(name) ==
    IF TypeLineHas(name, "creature") THEN "creatures"
    ELSE IF TypeLineHas(name, "instant") THEN "instants"
    ELSE IF TypeLineHas(name, "sorcery") THEN "sorceries"
    ELSE IF TypeLineHas(name, "artifact") THEN "artifacts"
    ELSE IF TypeLineHas(name, "enchantment") THEN "enchantments"
    ELSE IF TypeLineHas(name, "land") THEN "lands"
    ELSE IF TypeLineHas(name, "planeswalker") THEN "planeswalkers"
    ELSE "other"

Categories ==
    {"creatures", "artifacts", "enchantments", "instants", "sorceries", "lands",
     "planeswalkers", "other"}

\* DeckAnalyzer._categorize_cards
CategorizeCards(cards) ==
    [k \in Categories |-> SelectSeq(cards, LAMBDA c : Category(c.name) = k)]

(***************************************************************************)
(* DeckAnalyzer._calculate_cedh_signals: [signals, breakdown], breakdown a *)
(* set of <<key, value>> pairs with one pair per key.                      *)
(***************************************************************************)
Signal(r, key, n) ==
    [signals   |-> r.signals + n,
     breakdown |-> {p \in r.breakdown : p[1] # key} \cup {<<key, n>>}]

\* Mutant of CalculateCedhSignals: the combo bonus is not capped at 4.
CalculateCedhSignalsUncappedCombos(cedh_commander_tier, fast_mana_count, free_interaction_count, stax_count, avg_cmc, land_count, combo_data, tutor_score) ==
    LET r0 == [signals |-> 0, breakdown |-> {}]
        r1 == IF cedh_commander_tier = 1 THEN Signal(r0, "cedh_commander_tier1", 4)
              ELSE IF cedh_commander_tier = 2 THEN Signal(r0, "cedh_commander_tier2", 2)
              ELSE r0
        r2 == IF fast_mana_count >= FastManaCedhThreshold
              THEN Signal(r1, "fast_mana", fast_mana_count)
              ELSE IF fast_mana_count >= 3
              THEN Signal(r1, "fast_mana", fast_mana_count - 2)
              ELSE r1
        r3 == IF free_interaction_count >= FreeInteractionCedhThreshold
              THEN Signal(r2, "free_interaction", free_interaction_count)
              ELSE r2
        r4 == IF avg_cmc < AvgCmcCedh THEN Signal(r3, "low_avg_cmc", 2)
              ELSE IF avg_cmc < AvgCmcOptimized THEN Signal(r3, "optimized_curve", 1)
              ELSE r3
        r5 == IF land_count <= LandsCedhMax THEN Signal(r4, "low_land_count", 1)
              ELSE r4
        r6 == IF combo_data.has_cedh_combos
              THEN Signal(r5, "cedh_combos", combo_data.cedh_combo_count * 2)
              ELSE r5
        r7 == IF tutor_score >= 2 * 15 THEN Signal(r6, "heavy_tutors", 2)
              ELSE IF tutor_score >= 2 * 10 THEN Signal(r6, "moderate_tutors", 1)
              ELSE r6
        r8 == IF stax_count >= 5 THEN Signal(r7, "stax_density", 2)
              ELSE IF stax_count >= 3 THEN Signal(r7, "stax_density", 1)
              ELSE r7
    IN  r8

CalculateCedhSignals(cedh_commander_tier, fast_mana_count, free_interaction_count, stax_count, avg_cmc, land_count, combo_data, tutor_score) ==
    LET r0 == [signals |-> 0, breakdown |-> {}]
        r1 == IF cedh_commander_tier = 1 THEN Signal(r0, "cedh_commander_tier1", 4)
              ELSE IF cedh_commander_tier = 2 THEN Signal(r0, "cedh_commander_tier2", 2)
              ELSE r0
        r2 == IF fast_mana_count >= FastManaCedhThreshold
              THEN Signal(r1, "fast_mana", fast_mana_count)
              ELSE IF fast_mana_count >= 3
              THEN Signal(r1, "fast_mana", fast_mana_count - 2)
              ELSE r1
        r3 == IF free_interaction_count >= FreeInteractionCedhThreshold
              THEN Signal(r2, "free_interaction", free_interaction_count)
              ELSE r2
        r4 == IF avg_cmc < AvgCmcCedh THEN Signal(r3, "low_avg_cmc", 2)
              ELSE IF avg_cmc < AvgCmcOptimized THEN Signal(r3, "optimized_curve", 1)
              ELSE r3
        r5 == IF land_count <= LandsCedhMax THEN Signal(r4, "low_land_count", 1)
              ELSE r4
        r6 == IF combo_data.has_cedh_combos
              THEN Signal(r5, "cedh_combos", Min(combo_data.cedh_combo_count * 2, 4))
              ELSE r5
        r7 == IF tutor_score >= 2 * 15 THEN Signal(r6, "heavy_tutors", 2)
              ELSE IF tutor_score >= 2 * 10 THEN Signal(r6, "moderate_tutors", 1)
              ELSE r6
        r8 == IF stax_count >= 5 THEN Signal(r7, "stax_density", 2)
              ELSE IF stax_count >= 3 THEN Signal(r7, "stax_density", 1)
              ELSE r7
    IN  r8

(***************************************************************************)
(* ThemeDetector.get_bracket1_likelihood: the likelihood (the explanation  *)
(* string is not used by the decision procedure).                          *)
(***************************************************************************)
\* Mutant of GetBracket1Likelihood: the mass-land-denial veto is missing.
GetBracket1LikelihoodNoVeto(synergy_score, restriction_score, game_changers_count, fast_mana_count, tutor_count, has_mass_land_denial) ==
    LET l1 == IF restriction_score >= 50 THEN 60 ELSE 40
        l2 == IF synergy_score < 40 THEN l1 + 10 ELSE l1
        l3 == IF restriction_score >= 15 /\ synergy_score < 40
              THEN l2 + 20 ELSE l2
        l4 == IF game_changers_count > 0 /\ restriction_score < 25
              THEN l3 - Min(30, game_changers_count * 10) ELSE l3
        l5 == IF fast_mana_count = 0 THEN l4 + 5 ELSE l4
        l6 == IF tutor_count = 0 THEN l5 + 5 ELSE l5
    IN  Max(0, Min(100, l6))

\* Mutant of GetBracket1Likelihood: the +20 for low synergy does not ask for
\* a restriction score of 15 or more.
GetBracket1LikelihoodNoThemeGate(synergy_score, restriction_score, game_changers_count, fast_mana_count, tutor_count, has_mass_land_denial) ==
    IF has_mass_land_denial THEN 0
    ELSE LET l1 == IF restriction_score >= 50 THEN 60 ELSE 40
             l2 == IF synergy_score < 40 THEN l1 + 10 ELSE l1
             l3 == IF synergy_score < 40 THEN l2 + 20 ELSE l2
             l4 == IF game_changers_count > 0 /\ restriction_score < 25
                   THEN l3 - Min(30, game_changers_count * 10) ELSE l3
             l5 == IF fast_mana_count = 0 THEN l4 + 5 ELSE l4
             l6 == IF tutor_count = 0 THEN l5 + 5 ELSE l5
         IN  Max(0, Min(100, l6))

\* Mutant of GetBracket1Likelihood: the Game Changer penalty is not capped
\* at 30.
GetBracket1LikelihoodUncappedPenalty(synergy_score, restriction_score, game_changers_count, fast_mana_count, tutor_count, has_mass_land_denial) ==
    IF has_mass_land_denial THEN 0
    ELSE LET l1 == IF restriction_score >= 50 THEN 60
                   ELSE IF restriction_score >= 0 THEN 40
                   ELSE 0
             l2 == IF restriction_score >= 0 /\ synergy_score < 40
                   THEN l1 + 10 ELSE l1
             l3 == IF restriction_score >= 15 /\ synergy_score < 40
                   THEN l2 + 20 ELSE l2
             l4 == IF game_changers_count > 0 /\ restriction_score < 25
                   THEN l3 - game_changers_count * 10 ELSE l3
             l5 == IF fast_mana_count = 0 THEN l4 + 5 ELSE l4
             l6 == IF tutor_count = 0 THEN l5 + 5 ELSE l5
         IN  Max(0, Min(100, l6))

GetBracket1Likelihood(synergy_score, restriction_score, game_changers_count, fast_mana_count, tutor_count, has_mass_land_denial) ==
    IF has_mass_land_denial THEN 0
    ELSE LET l1 == IF restriction_score >= 50 THEN 60
                   ELSE IF restriction_score >= 0 THEN 40
                   ELSE 0
             l2 == IF restriction_score >= 0 /\ synergy_score < 40
                   THEN l1 + 10 ELSE l1
             l3 == IF restriction_score >= 15 /\ synergy_score < 40
                   THEN l2 + 20 ELSE l2
             l4 == IF game_changers_count > 0 /\ restriction_score < 25
                   THEN l3 - Min(30, game_changers_count * 10) ELSE l3
             l5 == IF fast_mana_count = 0 THEN l4 + 5 ELSE l4
             l6 == IF tutor_count = 0 THEN l5 + 5 ELSE l5
         IN  Max(0, Min(100, l6))

\* AIPlayAnalyzer._generate_fallback_analysis: one "- reason" line per reason.
FallbackReasonLines(rs) == [i \in 1..Len(rs) |-> <<"- ", rs[i]>>]

(***************************************************************************)
(* Bounds and sample values.  Counts are drawn so that every threshold of  *)
(* the decision procedure is met, just missed and exceeded.                *)
(***************************************************************************)
MaxGameChangers == 4
MaxCombos == 2
ExtraTurnCounts == {0, 1, 3}
TutorScores == {11, 12, 24}
FastManaCounts == {1, 2, 4}
StapleCounts == {4, 5, 10}
CedhSignalTotals == {11, 12}
ComboTags == {"R", "PW"}
ThemeInputs ==
    {[likelihood |-> 49, synergy |-> 30, description |-> None],
     [likelihood |-> 50, synergy |-> 30, description |-> None],
     [likelihood |-> 69, synergy |-> 10, description |-> "artist theme"],
     [likelihood |-> 70, synergy |-> 30, description |-> "artist theme"],
     [likelihood |-> 100, synergy |-> 10, description |-> "artist theme"]}
RestrictionScores == {0, 25, 50}
SynergyScores == {10, 40}
CommanderTiers == {0, 1}
AvgCmcs == {150, 300}
LandCounts == {30, 36}

\* What the Commander Spellbook lookup can give: one of the three failures
\* (the data a failed lookup would have carried plays no part), or an answer
\* with up to MaxCombos included combos (drawn with the "R" combos first: the
\* order of the combos does not change the counts) and one near miss.
NoAnswer ==
    [answered |-> FALSE, failure |-> "unavailable", included |-> <<"R">>,
     almost_included |-> <<"PW">>]
SpellbookFailures ==
    {[NoAnswer EXCEPT !.failure = f] : f \in {"unavailable", "raised", "no result"}}
TagRank(t) == IF t = "R" THEN 1 ELSE 2
SpellbookAnswers ==
    SpellbookFailures \cup
    {[answered |-> TRUE, failure |-> "none", included |-> q,
      almost_included |-> <<"PW">>] :
        q \in UNION {{q \in [1..n -> ComboTags] :
                        \A i \in 1..(n - 1) : TagRank(q[i]) <= TagRank(q[i + 1])}
                     : n \in 0..MaxCombos}}

NoResolver == [online |-> TRUE, known |-> {}]

NoIntake ==
    [parsed_cards |-> <<>>, legality_warnings |-> <<>>, card_data_map |-> <<>>,
     categorized |-> <<>>, total_cards |-> 0]

NoEnv ==
    [restriction_score |-> 0, synergy_score |-> 0, cedh_commander_tier |-> 0,
     avg_cmc |-> 0, effective_land_count |-> 0, spellbook |-> NoAnswer,
     archetypes |-> {}, tutor_api |-> TRUE]

NoAnalysis ==
    [game_changers |-> <<>>, mass_ld |-> <<>>, extra_turns |-> <<>>,
     tutor_breakdown |-> [premium |-> <<>>, efficient |-> <<>>,
                          standard |-> <<>>, slow |-> <<>>],
     all_tutors |-> <<>>, tutor_score |-> 0, fast_mana |-> <<>>,
     free_interaction |-> <<>>, high_power_staples |-> <<>>,
     competitive_stax |-> <<>>,
     combo_data |-> NeutralComboData, cedh_signals |-> 0,
     restriction_description |-> None, bracket1_likelihood |-> 0]

NoArgs ==
    [game_changers_count |-> 0, has_mass_ld |-> FALSE, extra_turn_count |-> 0,
     tutor_score |-> 0, fast_mana_count |-> 0, staple_count |-> 0,
     cedh_signals |-> 0, combo_data |-> NeutralComboData, archetypes |-> {},
     restriction_description |-> None, synergy_score |-> 0,
     bracket1_likelihood |-> 0]

(***************************************************************************)
(* analyze_deck, steps 4-17.                                               *)
(***************************************************************************)
\* Steps 4-14: the detectors that read the card names, and the combo lookup.
DetectSignals ==
    /\ pc = "detect"
    /\ LET tb == ClassifyTutors(deck, FetchNonRampTutors(env.tutor_api))
           pw == FindPowerLevelCards(deck)
       IN  analysis' = [analysis EXCEPT
               !.game_changers = FindGameChangers(deck),
               !.mass_ld = FindCardsByName(deck, MASS_LAND_DENIAL),
               !.extra_turns = FindCardsByName(deck, EXTRA_TURN_CARDS),
               !.tutor_breakdown = tb,
               !.all_tutors = tb.premium \o tb.efficient \o tb.standard
                                \o tb.slow,
               !.tutor_score = CalculateTutorScore(tb),
               !.fast_mana = pw.fast_mana,
               !.free_interaction = pw.free_interaction,
               !.high_power_staples = pw.high_power_staples,
               !.competitive_stax = pw.competitive_stax,
               !.combo_data = FetchCombos(env.spellbook)]
    /\ pc' = "score"
    /\ UNCHANGED <<decklist, resolver, intake, ret, deck, env, args, bracket,
                   reasons, lines>>

\* Steps 15-16: cEDH signals, theme data and the Bracket-1 likelihood.
ScoreSignals ==
    /\ pc = "score"
    /\ analysis' = [analysis EXCEPT
           !.cedh_signals =
               CalculateCedhSignals(env.cedh_commander_tier,
                                    Len(analysis.fast_mana),
                                    Len(analysis.free_interaction),
                                    Len(analysis.competitive_stax),
                                    env.avg_cmc, env.effective_land_count,
                                    analysis.combo_data,
                                    analysis.tutor_score).signals,
           !.restriction_description =
               IF env.restriction_score > 0 THEN "artist theme" ELSE None,
           !.bracket1_likelihood =
               GetBracket1Likelihood(env.synergy_score, env.restriction_score,
                                     Len(analysis.game_changers),
                                     Len(analysis.fast_mana),
                                     Len(analysis.all_tutors),
                                     Len(analysis.mass_ld) > 0)]
    /\ pc' = "call"
    /\ UNCHANGED <<decklist, resolver, intake, ret, deck, env, args, bracket,
                   reasons, lines>>

\* Step 17: the call of _calculate_bracket_enhanced and its first two lines.
CallBracketEnhanced ==
    /\ pc = "call"
    /\ args' = [game_changers_count |-> Len(analysis.game_changers),
                has_mass_ld |-> Len(analysis.mass_ld) > 0,
                extra_turn_count |-> Len(analysis.extra_turns),
                tutor_score |-> analysis.tutor_score,
                fast_mana_count |-> Len(analysis.fast_mana),
                staple_count |-> Len(analysis.high_power_staples),
                cedh_signals |-> analysis.cedh_signals,
                combo_data |-> analysis.combo_data,
                archetypes |-> env.archetypes,
                restriction_description |-> analysis.restriction_description,
                synergy_score |-> env.synergy_score,
                bracket1_likelihood |-> analysis.bracket1_likelihood]
    /\ bracket' = StartOfCall.bracket
    /\ reasons' = StartOfCall.reasons
    /\ pc' = "theme"
    /\ UNCHANGED <<decklist, resolver, intake, ret, deck, env, analysis, lines>>

(***************************************************************************)
(* _calculate_bracket_enhanced, one action per evaluation block.           *)
(***************************************************************************)
Running == [bracket |-> bracket, reasons |-> reasons]

Block(at, next, s) ==
    /\ pc = at
    /\ bracket' = s.bracket
    /\ reasons' = s.reasons
    /\ pc' = next
    /\ UNCHANGED <<decklist, resolver, intake, ret, deck, env, analysis, args,
                   lines>>

CheckTheme == Block("theme", "cedh", ThemeCheck(args, Running))
CheckCedh == Block("cedh", "combos", CedhCheck(args, Running))
CheckCombos == Block("combos", "game_changers", ComboAnalysis(args, Running))
CheckGameChangers == Block("game_changers", "mass_ld", GameChangersCheck(args, Running))
CheckMassLandDenial == Block("mass_ld", "extra_turns", MassLandDenialCheck(args, Running))
CheckExtraTurns == Block("extra_turns", "tutors", ExtraTurnsCheck(args, Running))
CheckTutorScore == Block("tutors", "fast_mana", TutorScoreCheck(args, Running))
CheckFastMana == Block("fast_mana", "staples", FastManaCheck(args, Running))
CheckStaples == Block("staples", "archetype", StaplesCheck(args, Running))
CheckComboArchetype == Block("archetype", "default", ComboArchetypeCheck(args, Running))
ExplainDefault == Block("default", "done", DefaultExplanation(args, Running))

\* AIPlayAnalyzer._generate_fallback_analysis renders the returned reasons.
GenerateFallbackAnalysis ==
    /\ pc = "done"
    /\ lines' = FallbackReasonLines(reasons)
    /\ pc' = "rendered"
    /\ UNCHANGED <<decklist, resolver, intake, ret, deck, env, analysis, args,
                   bracket, reasons>>

BracketNext ==
    \/ CheckTheme
    \/ CheckCedh
    \/ CheckCombos
    \/ CheckGameChangers
    \/ CheckMassLandDenial
    \/ CheckExtraTurns
    \/ CheckTutorScore
    \/ CheckFastMana
    \/ CheckStaples
    \/ CheckComboArchetype
    \/ ExplainDefault
    \/ GenerateFallbackAnalysis

(***************************************************************************)
(* SpecBracket: _calculate_bracket_enhanced on arguments drawn from the    *)
(* sample sets; combo_data is what _fetch_combos builds from a Spellbook   *)
(* answer.                                                                 *)
(***************************************************************************)
BracketArgs ==
    {[game_changers_count |-> gc, has_mass_ld |-> mld, extra_turn_count |-> et,
      tutor_score |-> ts, fast_mana_count |-> fm, staple_count |-> st,
      cedh_signals |-> cs, combo_data |-> FetchCombos(sb), archetypes |-> ar,
      restriction_description |-> th.description, synergy_score |-> th.synergy,
      bracket1_likelihood |-> th.likelihood] :
        gc \in 0..MaxGameChangers, mld \in BOOLEAN, et \in ExtraTurnCounts,
        ts \in TutorScores, fm \in FastManaCounts, st \in StapleCounts,
        cs \in CedhSignalTotals, sb \in SpellbookAnswers,
        ar \in {{}, {"combo"}}, th \in ThemeInputs}

InitBracket ==
    /\ decklist = <<>>
    /\ resolver = NoResolver
    /\ intake = NoIntake
    /\ ret = None
    /\ deck = <<>>
    /\ env = NoEnv
    /\ analysis = NoAnalysis
    /\ args \in BracketArgs
    /\ pc = "theme"
    /\ bracket = StartOfCall.bracket
    /\ reasons = StartOfCall.reasons
    /\ lines = <<>>

SpecBracket == InitBracket /\ [][BracketNext]_vars

(***************************************************************************)
(* Spec: analyze_deck from the resolved card set to the returned bracket.  *)
(***************************************************************************)
\* The resolved card sets: any of the core cards, with or without the five
\* free spells.
PoolOrder ==
    <<"Armageddon", "Time Warp", "Rhystic Study", "Sol Ring", "Demonic Tutor",
      "Pact of Negation", "Mental Misstep", "Misdirection", "Commandeer",
      "Submerge">>
DeckOf(names) ==
    SelectSeq([i \in 1..Len(PoolOrder) |-> [name |-> PoolOrder[i], quantity |-> 1]],
              LAMBDA c : c.name \in names)
Decks == {DeckOf(d \cup f) : d \in SUBSET CorePool, f \in {{}, FreeSpells}}

Envs ==
    [restriction_score : RestrictionScores, synergy_score : SynergyScores,
     cedh_commander_tier : CommanderTiers, avg_cmc : AvgCmcs,
     effective_land_count : LandCounts, spellbook : SpellbookAnswers,
     archetypes : {{}, {"combo"}}, tutor_api : {TRUE}]

Init ==
    /\ decklist = <<>>
    /\ resolver = NoResolver
    /\ intake = NoIntake
    /\ ret = None
    /\ deck \in Decks
    /\ env \in Envs
    /\ analysis = NoAnalysis
    /\ args = NoArgs
    /\ pc = "detect"
    /\ bracket = 0
    /\ reasons = <<>>
    /\ lines = <<>>

Next ==
    \/ DetectSignals
    \/ ScoreSignals
    \/ CallBracketEnhanced
    \/ BracketNext

Spec == Init /\ [][Next]_vars

(***************************************************************************)
(* scryfall_client.parse_decklist.  A line of the decklist text, stripped, *)
(* is kept as its first whitespace-separated token, a sequence of          *)
(* characters, and the rest of the line, stripped (a card name or a part   *)
(* of one, "" when the line is a single token); the blank line has the     *)
(* empty token.                                                            *)
(***************************************************************************)
Digits == <<"0", "1", "2", "3", "4", "5", "6", "7", "8", "9">>

IsDigit(c) == \E d \in 1..10 : Digits[d] = c

DigitOf(c) == (CHOOSE d \in 1..10 : Digits[d] = c) - 1

\* str.upper() on the characters that occur.
Upper(c) ==
    CASE c = "o" -> "O" [] c = "m" -> "M" [] c = "a" -> "A" [] c = "n" -> "N"
      [] c = "d" -> "D" [] c = "e" -> "E" [] c = "r" -> "R" [] c = "s" -> "S"
      [] c = "i" -> "I" [] c = "b" -> "B" [] c = "c" -> "C" [] c = "x" -> "X"
      [] c = "l" -> "L"
      [] OTHER -> c

\* str.rstrip(c)
RECURSIVE Rstrip(_, _)
Rstrip(chars, c) ==
    IF chars # <<>> /\ chars[Len(chars)] = c
    THEN Rstrip(SubSeq(chars, 1, Len(chars) - 1), c)
    ELSE chars

\* line.upper().startswith(prefix)
UpperStartsWith(chars, prefix) ==
    /\ Len(chars) >= Len(prefix)
    /\ \A i \in 1..Len(prefix) : Upper(chars[i]) = prefix[i]

\* int(s) succeeds: an optional sign and then digits only.
IsInt(chars) ==
    LET digits == IF chars # <<>> /\ chars[1] \in {"-", "+"}
                  THEN Tail(chars) ELSE chars
    IN  digits # <<>> /\ \A i \in 1..Len(digits) : IsDigit(digits[i])

RECURSIVE DigitsValue(_)
DigitsValue(digits) ==
    IF digits = <<>> THEN 0
    ELSE 10 * DigitsValue(SubSeq(digits, 1, Len(digits) - 1))
         + DigitOf(digits[Len(digits)])

\* int(s) where it succeeds.
IntOf(chars) ==
    IF chars[1] = "-" THEN 0 - DigitsValue(Tail(chars))
    ELSE IF chars[1] = "+" THEN DigitsValue(Tail(chars))
    ELSE DigitsValue(chars)

\* The text of a line, for the lines that occur.
LineText(line) ==
    CASE line.rest = "" /\ line.first = <<"I", "s", "l", "a", "n", "d">>
             -> "Island"
      [] line.rest = "RING" /\ line.first = <<"S", "O", "L">> -> "SOL RING"
      [] line.rest = "Ring" /\ line.first = <<"S", "o", "l">> -> "Sol Ring"
      [] line.rest = "Sol Ring" /\ line.first = <<"x">> -> "x Sol Ring"
      [] line.rest = "Sol Ring" /\ line.first = <<"2", "x", "X">>
             -> "2xX Sol Ring"
      [] line.rest = "" /\ line.first = <<"1", "x">> -> "1x"

\* Lines that parse_decklist skips: empty, comment, section header.
SkippedLine(line) ==
    \/ line.first = <<>>
    \/ line.first[1] = "#"
    \/ Len(line.first) >= 2 /\ line.first[1] = "/" /\ line.first[2] = "/"
    \/ UpperStartsWith(line.first,
                       <<"C", "O", "M", "M", "A", "N", "D", "E", "R">>)
    \/ UpperStartsWith(line.first,
                       <<"S", "I", "D", "E", "B", "O", "A", "R", "D">>)

\* The entry made for a line that is not skipped.
ParseLine(line) ==
    LET quantity_str == Rstrip(Rstrip(line.first, "x"), "X")
    IN  IF line.rest # "" /\ IsInt(quantity_str)
        THEN [quantity |-> IntOf(quantity_str), name |-> line.rest]
        ELSE [quantity |-> 1, name |-> LineText(line)]

\* scryfall_client.parse_decklist
ParseDecklist(text) ==
    LET kept == SelectSeq(text, LAMBDA l : ~SkippedLine(l))
    IN  [i \in 1..Len(kept) |-> ParseLine(kept[i])]

(***************************************************************************)
(* analyze_deck, steps 1.5-5: the quantities of the parsed entries are     *)
(* validated, the names are resolved in bulk and matched, and the matched  *)
(* cards are categorized.                                                  *)
(***************************************************************************)
\* DeckAnalyzer._validate_card_quantities: one warning per parsed entry that
\* is over its limit; a warning is kept as the quantity and the name that
\* are formatted into it.
ValidateCardQuantities(parsed_cards) ==
    LET illegal(card) ==
            IF card.quantity <= 1 THEN FALSE
            ELSE IF Lower(card.name) \in BASIC_LAND_NAMES THEN FALSE
            ELSE IF Lower(card.name) \in UNLIMITED_COPIES_CARDS THEN FALSE
            ELSE IF Lower(card.name) \in DOMAIN LIMITED_COPIES_CARDS
                 THEN card.quantity > LIMITED_COPIES_CARDS[Lower(card.name)]
            ELSE TRUE
        bad == SelectSeq(parsed_cards, illegal)
    IN  [i \in 1..Len(bad) |-> [quantity |-> bad[i].quantity, name |-> bad[i].name]]

\* ScryfallClient.get_cards_bulk: the found cards under their lowercased
\* Scryfall names, the names that were not found under their own lowercased
\* spelling with None; nothing at all when the batch request fails.  A card
\* is kept as its Scryfall name.
GetCardsBulk(names, scryfall) ==
    IF ~scryfall.online THEN <<>>
    ELSE LET asked == {Lower(names[i]) : i \in 1..Len(names)}
         IN  [k \in asked |->
                 IF \E c \in scryfall.known : Lower(c) = k
                 THEN CHOOSE c \in scryfall.known : Lower(c) = k
                 ELSE None]

\* analyze_deck, step 3.  The entries of one card in all_cards are one and
\* the same dict of card_data_map, so writing _quantity for a later line
\* also changes the entries made for the earlier lines of that card.
RECURSIVE MatchCards(_, _, _)
MatchCards(parsed_cards, card_data_map, all_cards) ==
    IF parsed_cards = <<>> THEN all_cards
    ELSE LET parsed_card == Head(parsed_cards)
             key == Lower(parsed_card.name)
             found == key \in DOMAIN card_data_map /\ card_data_map[key] # None
             rewritten ==
                 [i \in 1..Len(all_cards) |->
                     IF all_cards[i].name = card_data_map[key]
                     THEN [all_cards[i] EXCEPT !.quantity = parsed_card.quantity]
                     ELSE all_cards[i]]
         IN  MatchCards(Tail(parsed_cards), card_data_map,
                 IF found
                 THEN Append(rewritten, [name |-> card_data_map[key],
                                         quantity |-> parsed_card.quantity])
                 ELSE all_cards)

\* DeckAnalyzer._find_mdfc_lands: layout "modal_dfc" with a land on the back
\* face only.
FindMdfcLands(cards) == SelectSeq(cards, LAMBDA c : c.name = DoubleFaced)

\* DeckAnalyzer._calculate_mana_curve: the mean of int(cmc) over the copies
\* of the non-land cards, rounded to 2 places (in hundredths; a tie goes to
\* the even neighbour), 0 without non-land cards.
RECURSIVE TotalCmc(_)
TotalCmc(cards) ==
    IF cards = <<>> THEN 0
    ELSE (Cmc(Head(cards).name) \div 10) * Quantity(Head(cards))
         + TotalCmc(Tail(cards))

\* Mutant of ManaCurve: every entry is counted once, whatever its quantity.
ManaCurveCountingEntries(cards) ==
    LET nonland == SelectSeq(cards, LAMBDA c : ~TypeLineHas(c.name, "land"))
    IN  [display_cmc \in 0..7 |->
            Len(SelectSeq(nonland,
                LAMBDA c : Min(Cmc(c.name) \div 10, 7) = display_cmc))]

\* DeckAnalyzer._calculate_mana_curve: the histogram, the copies of the
\* non-land cards per min(int(cmc), 7); a value without cards, which the
\* dict of the code leaves out, is kept with count 0.
ManaCurve(cards) ==
    LET nonland == SelectSeq(cards, LAMBDA c : ~TypeLineHas(c.name, "land"))
    IN  [display_cmc \in 0..7 |->
            CountCardsWithQuantity(SelectSeq(nonland,
                LAMBDA c : Min(Cmc(c.name) \div 10, 7) = display_cmc))]

CalculateManaCurve(cards) ==
    LET nonland == SelectSeq(cards, LAMBDA c : ~TypeLineHas(c.name, "land"))
        total_cmc == TotalCmc(nonland)
        nonland_count == CountCardsWithQuantity(nonland)
        floor == (100 * total_cmc) \div nonland_count
        twice == 2 * ((100 * total_cmc) % nonland_count)
    IN  IF nonland_count = 0 THEN 0
        ELSE IF twice > nonland_count THEN floor + 1
        ELSE IF twice < nonland_count THEN floor
        ELSE IF floor % 2 = 0 THEN floor
        ELSE floor + 1

\* Step 1: parse_decklist.
AnalyzeParse ==
    /\ pc = "parse"
    /\ intake' = [intake EXCEPT !.parsed_cards = ParseDecklist(decklist)]
    /\ pc' = "validate"
    /\ UNCHANGED <<decklist, resolver, ret, deck, env, analysis, args, bracket,
                   reasons, lines>>

\* Step 1.5: _validate_card_quantities.
AnalyzeValidate ==
    /\ pc = "validate"
    /\ intake' = [intake EXCEPT
           !.legality_warnings = ValidateCardQuantities(intake.parsed_cards)]
    /\ pc' = "resolve"
    /\ UNCHANGED <<decklist, resolver, ret, deck, env, analysis, args, bracket,
                   reasons, lines>>

\* Step 2: get_cards_bulk on the parsed names.
AnalyzeResolve ==
    /\ pc = "resolve"
    /\ intake' = [intake EXCEPT
           !.card_data_map = GetCardsBulk(Names(intake.parsed_cards), resolver)]
    /\ pc' = "match"
    /\ UNCHANGED <<decklist, resolver, ret, deck, env, analysis, args, bracket,
                   reasons, lines>>

\* Step 3: all_cards.
AnalyzeMatch ==
    /\ pc = "match"
    /\ deck' = MatchCards(intake.parsed_cards, intake.card_data_map, <<>>)
    /\ pc' = "categorize"
    /\ UNCHANGED <<decklist, resolver, intake, ret, env, analysis, args, bracket,
                   reasons, lines>>

\* Steps 4, 5, 5.5 and 10-13, 16: the categories, the land counts, the mean
\* mana value, and the detectors that read the card metadata.  all_cards has
\* fewer than 15 entries here and none of them is a legendary creature, so
\* no commander is detected (tier 0), no archetype reaches its 15 cards, and
\* the theme detector and the synergy scorer, which want 20 non-basic
\* entries, both answer 0.
AnalyzeCategorize ==
    /\ pc = "categorize"
    /\ Len(deck) < 15
    /\ LET categorized == CategorizeCards(deck)
       IN  /\ intake' = [intake EXCEPT !.categorized = categorized]
           /\ env' = [env EXCEPT
                  !.effective_land_count =
                      CountCardsWithQuantity(categorized["lands"])
                        + CountCardsWithQuantity(FindMdfcLands(deck)),
                  !.avg_cmc = CalculateManaCurve(deck),
                  !.cedh_commander_tier = 0,
                  !.archetypes = {},
                  !.restriction_score = 0,
                  !.synergy_score = 0]
    /\ pc' = "detect"
    /\ UNCHANGED <<decklist, resolver, ret, deck, analysis, args, bracket,
                   reasons, lines>>

\* The return statement of analyze_deck: the DeckAnalysis (the fields that
\* the model computes).
ReturnDeckAnalysis ==
    /\ pc = "done"
    /\ intake' = [intake EXCEPT !.total_cards = CountCardsWithQuantity(deck)]
    /\ ret' = [total_cards |-> CountCardsWithQuantity(deck),
               game_changers_found |-> analysis.game_changers,
               game_changers_count |-> Len(analysis.game_changers),
               tutor_cards |-> analysis.all_tutors,
               lands |-> intake.categorized["lands"],
               mana_curve |-> ManaCurve(deck),
               average_cmc |-> env.avg_cmc,
               suggested_bracket |-> bracket,
               bracket_reasoning |-> reasons,
               all_cards |-> deck,
               cedh_signals |-> analysis.cedh_signals,
               verified_combos |-> analysis.combo_data.included,
               combo_count |-> analysis.combo_data.combo_count,
               has_cedh_combos |-> analysis.combo_data.has_cedh_combos,
               near_miss_combos |-> analysis.combo_data.almost_included,
               bracket1_likelihood |-> analysis.bracket1_likelihood,
               legality_warnings |-> intake.legality_warnings,
               effective_land_count |-> env.effective_land_count]
    /\ pc' = "returned"
    /\ UNCHANGED <<decklist, resolver, deck, env, analysis, args, bracket,
                   reasons, lines>>

(***************************************************************************)
(* SpecIntake: analyze_deck from the decklist text to the returned         *)
(* DeckAnalysis.  The decklists are the scenario list of five lines and    *)
(* every list of up to MaxLines lines of DecklistLines; the resolver       *)
(* answers or fails, the Spellbook fails in one of its three ways, finds   *)
(* nothing or finds one "R" combo.                                         *)
(***************************************************************************)
MaxLines == 2

Entry(quantity_str, name) == [first |-> quantity_str, rest |-> name]

DecklistLines ==
    {Entry(<<"1">>, "Sol Ring"), Entry(<<"S", "O", "L">>, "RING"),
     Entry(<<"4">>, "Sol Ring"), Entry(<<"1", "x">>, "Rhystic Study"),
     Entry(<<"9", "6">>, "Island"), Entry(<<"3", "0">>, "Relentless Rats"),
     Entry(<<"7">>, "Seven Dwarves"), Entry(<<"8", "X">>, "Seven Dwarves"),
     Entry(<<"1">>, "Storm Crow Typo"), Entry(<<"1">>, "Dryad Arbor"),
     Entry(<<"#">>, "ramp")}

ScenarioDecklist ==
    <<Entry(<<"1">>, "Sol Ring"), Entry(<<"1">>, "Demonic Tutor"),
      Entry(<<"1">>, "Rhystic Study"), Entry(<<"1">>, "Cyclonic Rift"),
      Entry(<<"9", "6">>, "Island")>>

Decklists ==
    {ScenarioDecklist} \cup UNION {[1..n -> DecklistLines] : n \in 0..MaxLines}

IntakeSpellbook ==
    SpellbookFailures \cup
    {[answered |-> TRUE, failure |-> "none", included |-> <<>>,
      almost_included |-> <<>>],
     [answered |-> TRUE, failure |-> "none", included |-> <<"R">>,
      almost_included |-> <<"PW">>]}

InitIntake ==
    /\ decklist \in Decklists
    /\ resolver \in [online : BOOLEAN, known : {ScryfallCards}]
    /\ intake = NoIntake
    /\ ret = None
    /\ deck = <<>>
    /\ env \in {[NoEnv EXCEPT !.spellbook = sb] : sb \in IntakeSpellbook}
    /\ analysis = NoAnalysis
    /\ args = NoArgs
    /\ pc = "parse"
    /\ bracket = 0
    /\ reasons = <<>>
    /\ lines = <<>>

NextIntake ==
    \/ AnalyzeParse
    \/ AnalyzeValidate
    \/ AnalyzeResolve
    \/ AnalyzeMatch
    \/ AnalyzeCategorize
    \/ DetectSignals
    \/ ScoreSignals
    \/ CallBracketEnhanced
    \/ CheckTheme
    \/ CheckCedh
    \/ CheckCombos
    \/ CheckGameChangers
    \/ CheckMassLandDenial
    \/ CheckExtraTurns
    \/ CheckTutorScore
    \/ CheckFastMana
    \/ CheckStaples
    \/ CheckComboArchetype
    \/ ExplainDefault
    \/ ReturnDeckAnalysis

SpecIntake == InitIntake /\ [][NextIntake]_vars

(***************************************************************************)
(* SpecTutorFetch: the paging loop of DeckAnalyzer.fetch_non_ramp_tutors.  *)
(* env holds the locals of the call: url (the page to ask for, 0 for       *)
(* None), tutor_dictionary (its keys), api_success, the response that is   *)
(* being handled, and _tutor_cache.  The server answers every request with *)
(* a page of tutors (status 200; it has MaxPages pages), with 429, with    *)
(* another status, or not at all (the request raises).                     *)
(***************************************************************************)
MaxPages == 2

TutorPageNames == {"Demonic Tutor", "Mystical Teachings", "Tainted Pact"}

NoResponse == [status |-> "none", data |-> {}, has_more |-> FALSE]

Responses(page) ==
    {[status |-> "200", data |-> d, has_more |-> m] :
        d \in SUBSET TutorPageNames,
        m \in IF page < MaxPages THEN BOOLEAN ELSE {FALSE}}
    \cup {[NoResponse EXCEPT !.status = st] : st \in {"429", "500", "raised"}}

\* The dictionary that the call caches and returns.
TutorDictionary(names, api_success) ==
    IF ~api_success \/ names = {}
    THEN BuildFallbackTutorDict
    ELSE [n \in names |-> ScryfallTutors[n]]

\* "if self._tutor_cache is not None: return self._tutor_cache", else the
\* locals are set up for the loop.
FetchTutorsEnter ==
    /\ pc = "fetch_tutors"
    /\ IF env.cached
       THEN /\ ret' = env.tutor_cache
            /\ pc' = "tutors_returned"
            /\ UNCHANGED env
       ELSE /\ env' = [env EXCEPT !.url = 1, !.tutor_dictionary = {},
                                  !.api_success = FALSE]
            /\ pc' = "request"
            /\ UNCHANGED ret
    /\ UNCHANGED <<decklist, resolver, intake, deck, analysis, args, bracket,
                   reasons, lines>>

\* "while url:" and requests.get: the loop ends when url is None, else the
\* server's answer arrives.
FetchTutorsRequest ==
    /\ pc = "request"
    /\ IF env.url = 0
       THEN /\ pc' = "cache"
            /\ UNCHANGED env
       ELSE /\ \E response \in Responses(env.url) :
                   env' = [env EXCEPT !.response = response]
            /\ pc' = "respond"
    /\ UNCHANGED <<decklist, resolver, intake, ret, deck, analysis, args,
                   bracket, reasons, lines>>

\* The body of the loop for the answer at hand: 429 asks again, another
\* status or an exception leaves the loop, a page is added to the dictionary
\* and the next page, if any, is asked for.
FetchTutorsRespond ==
    /\ pc = "respond"
    /\ LET response == env.response
       IN  IF response.status = "429"
           THEN /\ env' = [env EXCEPT !.response = NoResponse]
                /\ pc' = "request"
           ELSE IF response.status # "200"
           THEN /\ env' = [env EXCEPT !.response = NoResponse]
                /\ pc' = "cache"
           ELSE /\ env' = [env EXCEPT
                       !.api_success = TRUE,
                       !.tutor_dictionary = @ \cup response.data,
                       !.url = IF response.has_more THEN @ + 1 ELSE 0,
                       !.response = NoResponse]
                /\ pc' = "request"
    /\ UNCHANGED <<decklist, resolver, intake, ret, deck, analysis, args,
                   bracket, reasons, lines>>

\* After the loop: the fallback list, if need be; the cache; the return.
FetchTutorsReturn ==
    /\ pc = "cache"
    /\ LET tutor_dictionary ==
               TutorDictionary(env.tutor_dictionary, env.api_success)
       IN  /\ env' = [env EXCEPT !.cached = TRUE,
                                 !.tutor_cache = tutor_dictionary]
           /\ ret' = tutor_dictionary
    /\ pc' = "tutors_returned"
    /\ UNCHANGED <<decklist, resolver, intake, deck, analysis, args, bracket,
                   reasons, lines>>

InitTutorFetch ==
    /\ decklist = <<>>
    /\ resolver = NoResolver
    /\ intake = NoIntake
    /\ ret = <<>>
    /\ deck = <<>>
    /\ env \in {[url |-> 0, tutor_dictionary |-> {}, api_success |-> FALSE,
                 response |-> NoResponse, cached |-> c,
                 tutor_cache |-> BuildFallbackTutorDict] : c \in BOOLEAN}
    /\ analysis = NoAnalysis
    /\ args = NoArgs
    /\ pc = "fetch_tutors"
    /\ bracket = 0
    /\ reasons = <<>>
    /\ lines = <<>>

NextTutorFetch ==
    \/ FetchTutorsEnter
    \/ FetchTutorsRequest
    \/ FetchTutorsRespond
    \/ FetchTutorsReturn

\* The analyzer keeps running: a step of the call that can be taken is taken.
SpecTutorFetch ==
    InitTutorFetch /\ [][NextTutorFetch]_vars /\ WF_vars(NextTutorFetch)

(***************************************************************************)
(* SpecGameChangers: DeckAnalyzer.game_changers_set and the detector that  *)
(* reads it, over several analyses by one analyzer.  resolver.search is    *)
(* what happens to the "is:gamechanger" search: it is answered ("ok"),     *)
(* the request raises requests.RequestException ("network error"), the     *)
(* status is not 200 ("http error"), or something else raises ("raised",   *)
(* e.g. a body that is not the expected JSON).  env is the analyzer: its   *)
(* _game_changers_cache (cached FALSE for None) and the number of searches *)
(* it has sent.                                                            *)
(***************************************************************************)
MaxAnalyses == 2

SearchOutcomes == {"ok", "network error", "http error", "raised"}

\* ScryfallClient.search_cards("is:gamechanger") / get_game_changers_list:
\* the names of the cards collected before the loop ended.  The list fits
\* on one page, so a failed request leaves none.  Not defined when the call
\* raises.
GetGameChangersList(search) ==
    IF search = "ok" THEN GAME_CHANGERS ELSE {}

\* DeckAnalyzer.game_changers_set, the value cached on the first access.
GameChangersCache(search) ==
    IF search = "raised"
    THEN LowerAll(GAME_CHANGERS)
    ELSE LowerAll(GetGameChangersList(search))

\* DeckAnalyzer._find_game_changers on a given set.
FindGameChangersIn(cards, game_changers_set) ==
    Names(SelectSeq(cards, LAMBDA c : Lower(c.name) \in game_changers_set))

\* _find_game_changers(all_cards): the set is read, and fetched first when
\* the cache is None.
FindGameChangersCall ==
    /\ pc = "find_game_changers"
    /\ LET game_changers_set ==
               IF env.cached THEN env.game_changers_cache
               ELSE GameChangersCache(resolver.search)
       IN  /\ env' = [env EXCEPT
                  !.cached = TRUE,
                  !.game_changers_cache = game_changers_set,
                  !.searches = IF env.cached THEN @ ELSE @ + 1,
                  !.analyses = @ + 1]
           /\ ret' = FindGameChangersIn(deck, game_changers_set)
    /\ pc' = "game_changers_found"
    /\ UNCHANGED <<decklist, resolver, intake, deck, analysis, args, bracket,
                   reasons, lines>>

\* The same analyzer is given another deck; the search may fare differently
\* by then.
AnalyzeAnotherDeck ==
    /\ pc = "game_changers_found"
    /\ env.analyses < MaxAnalyses
    /\ deck' \in Decks
    /\ \E search \in SearchOutcomes :
           resolver' = [resolver EXCEPT !.search = search]
    /\ pc' = "find_game_changers"
    /\ UNCHANGED <<decklist, intake, ret, env, analysis, args, bracket,
                   reasons, lines>>

InitGameChangers ==
    /\ decklist = <<>>
    /\ resolver \in {[online |-> TRUE, known |-> ScryfallCards, search |-> o] :
                        o \in SearchOutcomes}
    /\ intake = NoIntake
    /\ ret = <<>>
    /\ deck \in Decks
    /\ env = [cached |-> FALSE, game_changers_cache |-> {}, searches |-> 0,
              analyses |-> 0]
    /\ analysis = NoAnalysis
    /\ args = NoArgs
    /\ pc = "find_game_changers"
    /\ bracket = 0
    /\ reasons = <<>>
    /\ lines = <<>>

NextGameChangers ==
    \/ FindGameChangersCall
    \/ AnalyzeAnotherDeck

SpecGameChangers == InitGameChangers /\ [][NextGameChangers]_vars

(***************************************************************************)
(* SpecParse: parse_decklist on its own, on every text of up to            *)
(* MaxTextLines lines of ParseSample.                                      *)
(***************************************************************************)
MaxTextLines == 2

ParseSample ==
    {Entry(<<"1">>, "Sol Ring"), Entry(<<"4", "x">>, "Sol Ring"),
     Entry(<<"8", "X">>, "Seven Dwarves"), Entry(<<"9", "6">>, "Island"),
     Entry(<<"0">>, "Sol Ring"), Entry(<<"-", "1">>, "Sol Ring"),
     Entry(<<"S", "o", "l">>, "Ring"), Entry(<<"I", "s", "l", "a", "n", "d">>, ""),
     Entry(<<"x">>, "Sol Ring"), Entry(<<"2", "x", "X">>, "Sol Ring"),
     Entry(<<"1", "x">>, ""), Entry(<<>>, ""), Entry(<<"#">>, "ramp"),
     Entry(<<"/", "/">>, "Lands"),
     Entry(<<"C", "o", "m", "m", "a", "n", "d", "e", "r", ":">>, ""),
     Entry(<<"S", "I", "D", "E", "B", "O", "A", "R", "D">>, "")}

ParseText ==
    /\ pc = "parse_args"
    /\ ret' = ParseDecklist(decklist)
    /\ pc' = "parsed"
    /\ UNCHANGED <<decklist, resolver, intake, deck, env, analysis, args,
                   bracket, reasons, lines>>

InitParse ==
    /\ decklist \in UNION {[1..n -> ParseSample] : n \in 0..MaxTextLines}
    /\ resolver = NoResolver
    /\ intake = NoIntake
    /\ ret = <<>>
    /\ deck = <<>>
    /\ env = NoEnv
    /\ analysis = NoAnalysis
    /\ args = NoArgs
    /\ pc = "parse_args"
    /\ bracket = 0
    /\ reasons = <<>>
    /\ lines = <<>>

NextParse == ParseText

SpecParse == InitParse /\ [][NextParse]_vars

(***************************************************************************)
(* SpecCards: count_cards_with_quantity, _categorize_cards and             *)
(* _classify_tutors, each run on its own on a list of card entries.        *)
(***************************************************************************)
MaxCards == 3

\* The entries drawn.  For the count: many copies, one copy, and an entry
\* that has no quantity.  For the categorizer: every bucket, and the type
\* lines that match two tests.  For the tutors: curated and not, every
\* mana-value tier, a double-faced card, and a card that is no tutor.
CountSample ==
    {[name |-> "Island", quantity |-> 30],
     [name |-> "Relentless Rats", quantity |-> 30],
     [name |-> "Seven Dwarves", quantity |-> 7],
     [name |-> "Sol Ring", quantity |-> 1],
     [name |-> "Sol Ring"]}

CategorySample ==
    {[name |-> n, quantity |-> 1] :
        n \in {"Sol Ring", "Solemn Simulacrum", "Dryad Arbor", "Seat of the Synod",
               "Urza's Saga", "Rhystic Study", "Island", "Liliana Vess",
               "Tomb of Annihilation", "Demonic Tutor", "Mystical Teachings",
               DoubleFaced}}

TutorSample ==
    {[name |-> n, quantity |-> 1] :
        n \in {"Sol Ring", "Demonic Tutor", "Dimir Machinations", "Urza's Saga",
               "Liliana Vess", "Demonic Consultation", "Tainted Pact",
               "Sarkhan's Triumph", "Mystical Teachings", DoubleFaced}}

CardLists(entries) == UNION {[1..n -> entries] : n \in 0..MaxCards}

CountCards ==
    /\ pc = "count_args"
    /\ ret' = CountCardsWithQuantity(deck)
    /\ pc' = "counted"
    /\ UNCHANGED <<decklist, resolver, intake, deck, env, analysis, args,
                   bracket, reasons, lines>>

Categorize ==
    /\ pc = "categorize_args"
    /\ ret' = CategorizeCards(deck)
    /\ pc' = "categorized"
    /\ UNCHANGED <<decklist, resolver, intake, deck, env, analysis, args,
                   bracket, reasons, lines>>

Classify ==
    /\ pc = "classify_args"
    /\ ret' = ClassifyTutors(deck, FetchNonRampTutors(env.tutor_api))
    /\ pc' = "classified"
    /\ UNCHANGED <<decklist, resolver, intake, deck, env, analysis, args,
                   bracket, reasons, lines>>

InitCards ==
    /\ decklist = <<>>
    /\ resolver = NoResolver
    /\ intake = NoIntake
    /\ ret = None
    /\ \/ pc = "count_args" /\ deck \in CardLists(CountSample) /\ env = NoEnv
       \/ pc = "categorize_args" /\ deck \in CardLists(CategorySample)
             /\ env = NoEnv
       \/ /\ pc = "classify_args"
          /\ deck \in CardLists(TutorSample)
          /\ env \in {[NoEnv EXCEPT !.tutor_api = b] : b \in BOOLEAN}
    /\ analysis = NoAnalysis
    /\ args = NoArgs
    /\ bracket = 0
    /\ reasons = <<>>
    /\ lines = <<>>

NextCards == CountCards \/ Categorize \/ Classify

SpecCards == InitCards /\ [][NextCards]_vars

(***************************************************************************)
(* SpecScores: _calculate_cedh_signals and get_bracket1_likelihood, each   *)
(* run on its own on arguments drawn on both sides of every threshold.     *)
(* Restriction scores are in 0..100 (detect_themes caps the sum of its     *)
(* positive weights at 100), counts are list lengths.                      *)
(***************************************************************************)
CedhArgs ==
    [cedh_commander_tier : {0, 1, 2},
     fast_mana_count : {0, 2, 3, 5, 6, 7},
     free_interaction_count : {0, 2, 3, 4},
     stax_count : {0, 2, 3, 4, 5},
     avg_cmc : {199, 200, 249, 250},
     land_count : {31, 32},
     combo_data : {FetchCombos([answered |-> TRUE, failure |-> "none",
                                included |-> [i \in 1..n |-> "R"],
                                almost_included |-> <<>>]) :
                      n \in {0, 1, 3}},
     tutor_score : {0, 19, 20, 29, 30}]

LikelihoodArgs ==
    [synergy_score : {0, 39, 40, 100},
     restriction_score : {0, 14, 15, 24, 25, 49, 50, 100},
     game_changers_count : 0..MaxGameChangers,
     fast_mana_count : {0, 1},
     tutor_count : {0, 1},
     has_mass_land_denial : BOOLEAN]

ComputeCedhSignals ==
    /\ pc = "cedh_args"
    /\ ret' = CalculateCedhSignals(args.cedh_commander_tier,
                                   args.fast_mana_count,
                                   args.free_interaction_count, args.stax_count,
                                   args.avg_cmc, args.land_count,
                                   args.combo_data, args.tutor_score)
    /\ pc' = "cedh_signals"
    /\ UNCHANGED <<decklist, resolver, intake, deck, env, analysis, args,
                   bracket, reasons, lines>>

ComputeBracket1Likelihood ==
    /\ pc = "likelihood_args"
    /\ ret' = GetBracket1Likelihood(args.synergy_score, args.restriction_score,
                                    args.game_changers_count,
                                    args.fast_mana_count, args.tutor_count,
                                    args.has_mass_land_denial)
    /\ pc' = "likelihood"
    /\ UNCHANGED <<decklist, resolver, intake, deck, env, analysis, args,
                   bracket, reasons, lines>>

InitScores ==
    /\ decklist = <<>>
    /\ resolver = NoResolver
    /\ intake = NoIntake
    /\ ret = None
    /\ deck = <<>>
    /\ env = NoEnv
    /\ analysis = NoAnalysis
    /\ \/ pc = "cedh_args" /\ args \in CedhArgs
       \/ pc = "likelihood_args" /\ args \in LikelihoodArgs
    /\ bracket = 0
    /\ reasons = <<>>
    /\ lines = <<>>

NextScores == ComputeCedhSignals \/ ComputeBracket1Likelihood

SpecScores == InitScores /\ [][NextScores]_vars

(***************************************************************************)
(* SpecSynergy: SynergyAnalyzer.calculate_synergy_score and its fallback   *)
(* DeckAnalyzer._calculate_basic_synergy.  The scores are floats in the    *)
(* code; here they are exact fractions [num, den].  A card list is a       *)
(* sequence of groups [card, copies]: copies cards with distinct names     *)
(* and the type line and oracle text of card.                              *)
(***************************************************************************)
RECURSIVE Gcd(_, _)
Gcd(a, b) == IF b = 0 THEN a ELSE Gcd(b, a % b)

Frac(num, den) ==
    LET g == Gcd(num, den) IN [num |-> num \div g, den |-> den \div g]

Whole(n) == [num |-> n, den |-> 1]

FracAdd(x, y) == Frac(x.num * y.den + y.num * x.den, x.den * y.den)

FracMul(x, y) == Frac(x.num * y.num, x.den * y.den)

FracLess(x, y) == x.num * y.den < y.num * x.den

FracMin(x, y) == IF FracLess(y, x) THEN y ELSE x

FracMax(x, y) == IF FracLess(x, y) THEN y ELSE x

\* round(x, 2): the nearest hundredth, a tie going to the even one.
Round2(x) ==
    LET q == x.num \div x.den
        r == (x.num % x.den) * 100
        h == r \div x.den
        twice == 2 * (r % x.den)
        up == twice > x.den \/ (twice = x.den /\ h % 2 = 1)
    IN  Frac(q * 100 + h + (IF up THEN 1 ELSE 0), 100)

\* SynergyAnalyzer.TRIBAL_TYPES, the ones that the sample cards mention.
TRIBAL_TYPES == {"Elf", "Elves", "Human", "Humans", "Wizard", "Druid"}

\* SynergyAnalyzer._normalize_type on the sample's types and subtypes.
NormalizeType(t) ==
    CASE t = "Elf"    -> "elf"
      [] t = "Elves"  -> "elf"
      [] t = "Human"  -> "human"
      [] t = "Humans" -> "human"
      [] t = "Wizard" -> "wizard"
      [] t = "Druid"  -> "druid"

\* The tribal types whose lowercased name occurs in the oracle text.
TribalTypesIn(oracle_text) ==
    CASE oracle_text = "Whenever an Elf enters the battlefield, add G."
             -> {"Elf"}
      [] oracle_text = "Other Elves you control get +1/+1." -> {"Elves"}
      [] oracle_text = "Draw cards equal to Elves you control." -> {"Elves"}
      [] oracle_text = "Draw a card." -> {}
      [] oracle_text = "When this creature enters the battlefield, add G."
             -> {}
      [] oracle_text = "Other creatures you control get +1/+1." -> {}
      [] oracle_text = "" -> {}

\* SYNERGY_THEMES: the weight of a theme, in tenths.
ThemeWeight(theme) ==
    CASE theme = "etb" -> 10
      [] theme = "draw" -> 6

\* The themes one of whose keywords occurs in the oracle text.
ThemesIn(oracle_text) ==
    CASE oracle_text = "Whenever an Elf enters the battlefield, add G."
             -> {"etb"}
      [] oracle_text = "Other Elves you control get +1/+1." -> {}
      [] oracle_text = "Draw cards equal to Elves you control." -> {"draw"}
      [] oracle_text = "Draw a card." -> {"draw"}
      [] oracle_text = "When this creature enters the battlefield, add G."
             -> {"etb"}
      [] oracle_text = "Other creatures you control get +1/+1." -> {}
      [] oracle_text = "" -> {}

\* A type line is its sequence of words; "--" is the long dash.
InTypeLine(word, type_line) == \E i \in 1..Len(type_line) : type_line[i] = word

\* type_line.split(sep)[1].strip().split()
Subtypes(type_line) ==
    IF InTypeLine("--", type_line)
    THEN LET dash == CHOOSE i \in 1..Len(type_line) :
                         /\ type_line[i] = "--"
                         /\ \A j \in 1..(i - 1) : type_line[j] # "--"
             tail == SubSeq(type_line, dash + 1, Len(type_line))
             next == IF InTypeLine("--", tail)
                     THEN (CHOOSE i \in 1..Len(tail) :
                               /\ tail[i] = "--"
                               /\ \A j \in 1..(i - 1) : tail[j] # "--") - 1
                     ELSE Len(tail)
         IN  SubSeq(tail, 1, next)
    ELSE <<>>

RECURSIVE SumCopies(_, _)
SumCopies(cards, groups) ==
    IF groups = {} THEN 0
    ELSE LET i == CHOOSE g \in groups : TRUE
         IN  cards[i].copies + SumCopies(cards, groups \ {i})

\* len(cards) of a grouped card list
NumCards(cards) == SumCopies(cards, DOMAIN cards)

\* [c for c in deck_cards if "Basic" not in c.get("type_line", "")]
NonBasics(cards) ==
    SelectSeq(cards, LAMBDA g : ~InTypeLine("Basic", g.card.type_line))

CreatureCount(cards) ==
    SumCopies(cards, {i \in DOMAIN cards :
                          InTypeLine("Creature", cards[i].card.type_line)})

\* oracle_mentions[creature_type]
OracleMentions(cards, creature_type) ==
    SumCopies(cards,
              {i \in DOMAIN cards :
                   /\ cards[i].card.oracle_text # ""
                   /\ \E t \in TRIBAL_TYPES :
                          /\ t \in TribalTypesIn(cards[i].card.oracle_text)
                          /\ NormalizeType(t) = creature_type})

\* type_line_counts[creature_type]
TypeLineCounts(cards, creature_type) ==
    LET creatures == {i \in DOMAIN cards :
                          InTypeLine("Creature", cards[i].card.type_line)}
        places == {<<i, k>> \in creatures \X (1..4) :
                       /\ k <= Len(Subtypes(cards[i].card.type_line))
                       /\ NormalizeType(Subtypes(cards[i].card.type_line)[k])
                              = creature_type}
    IN  SumCopies([p \in places |-> cards[p[1]]], places)

AllTypes(cards) ==
    {NormalizeType(t) : t \in TRIBAL_TYPES}
        \cup UNION {{NormalizeType(Subtypes(cards[i].card.type_line)[k]) :
                         k \in 1..Len(Subtypes(cards[i].card.type_line))} :
                    i \in {j \in DOMAIN cards :
                               InTypeLine("Creature", cards[j].card.type_line)}}

\* The score of one creature type in step 3 of _get_tribal_density.
TribalTotal(cards, creature_type, full_from, partial_from) ==
    LET oracle_count == OracleMentions(cards, creature_type)
        type_line_count == TypeLineCounts(cards, creature_type)
        creature_count == CreatureCount(cards)
        oracle_score == Whole(oracle_count * 3)
        type_line_score ==
            IF oracle_count >= full_from
            THEN Frac(type_line_count * 50, creature_count)
            ELSE IF oracle_count >= partial_from
            THEN Frac(type_line_count * 25, creature_count)
            ELSE Whole(0)
    IN  FracAdd(oracle_score, type_line_score)

RECURSIVE BestScore(_, _, _, _)
BestScore(cards, types, full_from, partial_from) ==
    IF types = {} THEN Whole(0)
    ELSE LET t == CHOOSE x \in types : TRUE
         IN  FracMax(TribalTotal(cards, t, full_from, partial_from),
                     BestScore(cards, types \ {t}, full_from, partial_from))

\* Mutant of GetTribalDensity: two mentions already give the full credit.
GetTribalDensityFullFromTwo(cards) ==
    IF CreatureCount(cards) < 5 THEN Whole(0)
    ELSE FracMin(Whole(80), BestScore(cards, AllTypes(cards), 2, 2))

\* SynergyAnalyzer._get_tribal_density
GetTribalDensity(cards) ==
    IF CreatureCount(cards) < 5 THEN Whole(0)
    ELSE FracMin(Whole(80), BestScore(cards, AllTypes(cards), 5, 2))

\* len(theme_hits[theme]): the cards are told apart by their names.
ThemeHits(cards, theme) ==
    SumCopies(cards, {i \in DOMAIN cards :
                          theme \in ThemesIn(cards[i].card.oracle_text)})

\* SynergyAnalyzer._get_theme_concentration
GetThemeConcentration(cards) ==
    LET deck_size == NumCards(cards)
        themes == {t \in {"etb", "draw"} : ThemeHits(cards, t) > 0}
        score(t) == Frac(ThemeHits(cards, t) * 10 * ThemeWeight(t), deck_size)
        first == CHOOSE t \in themes :
                     \A u \in themes : ~FracLess(score(t), score(u))
        second == CHOOSE t \in themes \ {first} : TRUE
        primary ==
            IF themes # {first} /\ FracLess(Whole(15), score(second))
            THEN FracAdd(score(first), FracMul(score(second), Frac(1, 5)))
            ELSE score(first)
    IN  IF themes = {} THEN Whole(0) ELSE FracMin(Whole(80), primary)

\* calculate_synergy_score, from the two sub-scores on.
FinalScore(tribal_score, theme_score) ==
    LET primary_score == FracMax(tribal_score, theme_score)
        secondary_score == FracMin(tribal_score, theme_score)
        final_score ==
            IF FracLess(Whole(20), secondary_score)
            THEN FracAdd(primary_score, FracMul(secondary_score, Frac(3, 20)))
            ELSE primary_score
    IN  FracMin(Whole(100), Round2(final_score))

\* SynergyAnalyzer.calculate_synergy_score
CalculateSynergyScore(deck_cards) ==
    IF NumCards(NonBasics(deck_cards)) < 20 THEN Whole(0)
    ELSE FinalScore(GetTribalDensity(NonBasics(deck_cards)),
                    GetThemeConcentration(NonBasics(deck_cards)))

\* DeckAnalyzer._calculate_basic_synergy
CalculateBasicSynergy(cards) ==
    LET counted == SelectSeq(cards, LAMBDA g :
                       /\ InTypeLine("Creature", g.card.type_line)
                       /\ ~InTypeLine("Basic", g.card.type_line))
        creature_count == NumCards(counted)
        subtypes == UNION {{Subtypes(counted[i].card.type_line)[k] :
                                k \in 1..Len(Subtypes(counted[i].card.type_line))} :
                           i \in DOMAIN counted}
        count(s) == SumCopies([p \in {<<i, k>> \in (DOMAIN counted) \X (1..4) :
                                          /\ k <= Len(Subtypes(counted[i].card.type_line))
                                          /\ Subtypes(counted[i].card.type_line)[k] = s}
                                   |-> counted[p[1]]],
                              {<<i, k>> \in (DOMAIN counted) \X (1..4) :
                                   /\ k <= Len(Subtypes(counted[i].card.type_line))
                                   /\ Subtypes(counted[i].card.type_line)[k] = s})
        top == CHOOSE s \in subtypes : \A u \in subtypes : count(u) <= count(s)
    IN  IF creature_count < 10 THEN Whole(0)
        ELSE IF subtypes # {} THEN Frac(count(top) * 100, creature_count)
        ELSE Whole(0)

\* The cards of the test decks of synergy.py, and a basic land.
ElfDruid ==
    [type_line |-> <<"Creature", "--", "Elf", "Druid">>,
     oracle_text |-> "Whenever an Elf enters the battlefield, add G."]

ElfLord ==
    [type_line |-> <<"Creature", "--", "Elf">>,
     oracle_text |-> "Other Elves you control get +1/+1."]

ElfSpell ==
    [type_line |-> <<"Sorcery">>,
     oracle_text |-> "Draw cards equal to Elves you control."]

QuietElf ==
    [type_line |-> <<"Creature", "--", "Elf", "Druid">>,
     oracle_text |-> "Draw a card."]

HumanWizard ==
    [type_line |-> <<"Creature", "--", "Human", "Wizard">>,
     oracle_text |-> "Draw a card."]

PlainLand == [type_line |-> <<"Land">>, oracle_text |-> ""]

BasicForest ==
    [type_line |-> <<"Basic", "Land", "--", "Forest">>, oracle_text |-> ""]

SynergyDecks ==
    {<<[card |-> ElfDruid, copies |-> a], [card |-> ElfLord, copies |-> b],
       [card |-> ElfSpell, copies |-> c], [card |-> QuietElf, copies |-> d],
       [card |-> HumanWizard, copies |-> e], [card |-> PlainLand, copies |-> f],
       [card |-> BasicForest, copies |-> 30 - f]>> :
        a \in {0, 1, 2, 4, 5, 20}, b \in {0, 5}, c \in {0, 1, 5},
        d \in {0, 3, 8, 20}, e \in {0, 30}, f \in {0, 15, 30}}

\* DeckAnalyzer._calculate_synergy_score with synergy.py importable
SynergyScoreCall ==
    /\ pc = "synergy_args"
    /\ env.synergy_import
    /\ ret' = CalculateSynergyScore(deck)
    /\ env' = IF NumCards(NonBasics(deck)) < 20 THEN env
               ELSE [env EXCEPT
                         !.tribal_score = GetTribalDensity(NonBasics(deck)),
                         !.theme_score =
                             GetThemeConcentration(NonBasics(deck))]
    /\ pc' = "synergy_scored"
    /\ UNCHANGED <<decklist, resolver, intake, deck, analysis, args,
                   bracket, reasons, lines>>

\* DeckAnalyzer._calculate_synergy_score on ImportError
BasicSynergyCall ==
    /\ pc = "synergy_args"
    /\ ~env.synergy_import
    /\ ret' = CalculateBasicSynergy(deck)
    /\ env' = [env EXCEPT !.tribal_score = CalculateBasicSynergy(deck)]
    /\ pc' = "synergy_scored"
    /\ UNCHANGED <<decklist, resolver, intake, deck, analysis, args,
                   bracket, reasons, lines>>

InitSynergy ==
    /\ decklist = <<>>
    /\ resolver = NoResolver
    /\ intake = NoIntake
    /\ ret = <<>>
    /\ deck \in SynergyDecks
    /\ env \in [synergy_import : BOOLEAN, tribal_score : {Whole(0)},
                theme_score : {Whole(0)}]
    /\ analysis = NoAnalysis
    /\ args = NoArgs
    /\ pc = "synergy_args"
    /\ bracket = 0
    /\ reasons = <<>>
    /\ lines = <<>>

NextSynergy == SynergyScoreCall \/ BasicSynergyCall

SpecSynergy == InitSynergy /\ [][NextSynergy]_vars

(***************************************************************************)
(* SpecThemes: ThemeDetector.detect_themes.  A card list is a sequence of  *)
(* groups [card, copies, names]: copies cards that share the metadata of   *)
(* card and are named names[1], ..., names[copies].  The percentages are   *)
(* exact fractions.                                                        *)
(***************************************************************************)
\* None, as a check returns it and as the description of an empty result.
NoDetection == <<>>

\* ThemeDetector.THRESHOLDS
THRESHOLDS ==
    [artist_concentration |-> Frac(40, 100), set_concentration |-> Frac(60, 100),
     block_concentration |-> Frac(70, 100), rarity_concentration |-> Frac(80, 100),
     cmc_concentration |-> Whole(1), alphabet_coverage |-> Whole(1),
     frame_concentration |-> Frac(85, 100)]

\* ThemeDetector.PRECON_SETS, the ones that the sample cards come from.
PRECON_SETS == {"plc", "c13"}

\* card.get("set", "").lower() and card.get("rarity", "").lower()
LowerCode(code) ==
    CASE code = "LRW" -> "lrw"
      [] code = "Uncommon" -> "uncommon"
      [] OTHER -> code

\* self.set_to_block.get(set_code), "" when the set is in no known block.
SetToBlock(set_code) ==
    CASE set_code \in {"lrw", "mor", "shm", "eve"} -> "lorwyn"
      [] set_code \in {"zen", "wwk", "roe"} -> "zendikar"
      [] set_code \in {"tsp", "plc", "fut"} -> "time_spiral"
      [] OTHER -> ""

Alphabet ==
    <<"A", "B", "C", "D", "E", "F", "G", "H", "I", "J", "K", "L", "M", "N",
      "O", "P", "Q", "R", "S", "T", "U", "V", "W", "X", "Y", "Z">>

\* name[0].upper(); the cards of the alphabet pack are named by a letter.
FirstChar(name) ==
    CASE name = "Keeper of the Flame" -> "K"
      [] name = "Sol Ring" -> "S"
      [] name = "Misty Rainforest" -> "M"
      [] name = "Forest" -> "F"
      [] name = "Jace, Vryn's Prodigy // Jace, Telepath Unbound" -> "J"
      [] OTHER -> name

\* re.findall(r'[a-z]{3,}', name.lower())
NameWords(name) ==
    CASE name = "Keeper of the Flame" -> <<"keeper", "the", "flame">>
      [] name = "Sol Ring" -> <<"sol", "ring">>
      [] name = "Misty Rainforest" -> <<"misty", "rainforest">>
      [] name = "Forest" -> <<"forest">>
      [] name = "Jace, Vryn's Prodigy // Jace, Telepath Unbound"
             -> <<"jace", "vryn", "prodigy", "jace", "telepath", "unbound">>
      [] OTHER -> <<>>

\* ignore_words of _check_name_word_pattern, those of three letters or more
IgnoreWords == {"the", "and", "for", "that", "with", "was", "this", "from"}

\* The values of a field, group by group.
Column(cards, field) == [i \in DOMAIN cards |-> cards[i].card[field]]

\* The groups that hold a card with a value.
Present(cards, values) ==
    {i \in DOMAIN cards : cards[i].copies > 0 /\ values[i] # ""}

CountOf(cards, idx, values, i) ==
    SumCopies(cards, {j \in idx : values[j] = values[i]})

\* Counter(values).most_common(1)[0]: the first value met among the most
\* frequent ones, its count, and its share of the values.
MostCommon(cards, idx, values) ==
    LET top == CHOOSE i \in idx :
                   \A j \in idx :
                       /\ CountOf(cards, idx, values, j)
                              <= CountOf(cards, idx, values, i)
                       /\ j < i => CountOf(cards, idx, values, j)
                                       < CountOf(cards, idx, values, i)
    IN  [name |-> values[top],
         count |-> CountOf(cards, idx, values, top),
         pct |-> Frac(CountOf(cards, idx, values, top), SumCopies(cards, idx))]

\* ThemeDetector._check_artist_concentration
CheckArtistConcentration(cards) ==
    LET artists == Column(cards, "artist")
        idx == Present(cards, artists)
        top == MostCommon(cards, idx, artists)
    IN  IF idx = {} THEN NoDetection
        ELSE IF ~FracLess(top.pct, THRESHOLDS.artist_concentration) THEN top
        ELSE NoDetection

\* ThemeDetector._check_set_concentration
CheckSetConcentration(cards) ==
    LET sets == [i \in DOMAIN cards |-> LowerCode(cards[i].card.set)]
        idx == {i \in Present(cards, sets) : sets[i] \notin PRECON_SETS}
        top == MostCommon(cards, idx, sets)
    IN  IF idx = {} THEN NoDetection
        ELSE IF ~FracLess(top.pct, THRESHOLDS.set_concentration) THEN top
        ELSE NoDetection

\* ThemeDetector._check_block_concentration
CheckBlockConcentration(cards) ==
    LET blocks == [i \in DOMAIN cards |->
                       SetToBlock(LowerCode(cards[i].card.set))]
        idx == Present(cards, blocks)
        top == MostCommon(cards, idx, blocks)
    IN  IF 2 * SumCopies(cards, idx) < NumCards(cards) THEN NoDetection
        ELSE IF ~FracLess(top.pct, THRESHOLDS.block_concentration) THEN top
        ELSE NoDetection

\* ThemeDetector._check_rarity_concentration
CheckRarityConcentration(cards) ==
    LET rarities == [i \in DOMAIN cards |-> LowerCode(cards[i].card.rarity)]
        idx == Present(cards, rarities)
        top == MostCommon(cards, idx, rarities)
    IN  IF idx = {} THEN NoDetection
        ELSE IF /\ ~FracLess(top.pct, THRESHOLDS.rarity_concentration)
                /\ top.name \in {"common", "uncommon"}
        THEN top
        ELSE NoDetection

\* The cards whose name starts with the letter.
LetterCount(cards, letter) ==
    Cardinality({p \in (DOMAIN cards) \X (1..Len(Alphabet)) :
                     /\ p[2] <= cards[p[1]].copies
                     /\ FirstChar(cards[p[1]].names[p[2]]) = letter})

RECURSIVE MaxOf(_)
MaxOf(numbers) ==
    LET n == CHOOSE x \in numbers : TRUE
    IN  IF numbers = {n} THEN n ELSE Max(n, MaxOf(numbers \ {n}))

\* ThemeDetector._check_alphabet_pattern
CheckAlphabetPattern(cards) ==
    LET first_letters == {Alphabet[l] : l \in {k \in DOMAIN Alphabet :
                              LetterCount(cards, Alphabet[k]) > 0}}
        coverage == Frac(Cardinality(first_letters), 26)
        total == NumCards(cards)
        max_count == MaxOf({LetterCount(cards, l) : l \in first_letters})
    IN  IF /\ ~FracLess(coverage, THRESHOLDS.alphabet_coverage)
           /\ max_count * Cardinality(first_letters) <= total * 3
        THEN [coverage |-> coverage,
              letters_used |-> Cardinality(first_letters)]
        ELSE NoDetection

\* ThemeDetector._check_cmc_concentration
CheckCmcConcentration(cards) ==
    LET idx == {i \in DOMAIN cards :
                    /\ cards[i].copies > 0
                    /\ ~InTypeLine("Land", cards[i].card.type_line)}
        top == MostCommon(cards, idx,
                          [i \in DOMAIN cards |-> cards[i].card.cmc \div 10])
    IN  IF idx = {} THEN NoDetection
        ELSE IF ~FracLess(top.pct, THRESHOLDS.cmc_concentration) THEN top
        ELSE NoDetection

\* ThemeDetector._check_frame_concentration
CheckFrameConcentration(cards) ==
    LET frames == Column(cards, "frame")
        idx == Present(cards, frames)
        top == MostCommon(cards, idx, frames)
    IN  IF idx = {} THEN NoDetection
        ELSE IF /\ ~FracLess(top.pct, THRESHOLDS.frame_concentration)
                /\ top.name \in {"1993", "1997"}
        THEN [top EXCEPT !.name = "old_border"]
        ELSE NoDetection

\* The places of the words in the names: group, card, word.
WordPlaces(cards) ==
    {p \in (DOMAIN cards) \X (1..Len(Alphabet)) \X (1..6) :
         /\ p[2] <= cards[p[1]].copies
         /\ p[3] <= Len(NameWords(cards[p[1]].names[p[2]]))
         /\ NameWords(cards[p[1]].names[p[2]])[p[3]] \notin IgnoreWords}

WordAt(cards, p) == NameWords(cards[p[1]].names[p[2]])[p[3]]

\* word_counts[word]
WordCount(cards, word) ==
    Cardinality({p \in WordPlaces(cards) : WordAt(cards, p) = word})

\* ThemeDetector._check_name_word_pattern
CheckNameWordPattern(cards) ==
    LET words == {WordAt(cards, p) : p \in WordPlaces(cards)}
        top_count == MaxOf({WordCount(cards, w) : w \in words})
        first(w) == CHOOSE p \in WordPlaces(cards) :
                        /\ WordAt(cards, p) = w
                        /\ \A q \in WordPlaces(cards) :
                               WordAt(cards, q) = w =>
                                   \/ p[1] < q[1]
                                   \/ p[1] = q[1] /\ p[2] < q[2]
                                   \/ p[1] = q[1] /\ p[2] = q[2] /\ p[3] <= q[3]
        top_word == CHOOSE w \in words :
                        /\ WordCount(cards, w) = top_count
                        /\ \A v \in words :
                               WordCount(cards, v) = top_count =>
                                   \/ v = w
                                   \/ first(w)[1] < first(v)[1]
                                   \/ first(w)[1] = first(v)[1]
                                          /\ first(w)[2] < first(v)[2]
                                   \/ first(w)[1] = first(v)[1]
                                          /\ first(w)[2] = first(v)[2]
                                          /\ first(w)[3] < first(v)[3]
    IN  IF words = {} THEN NoDetection
        ELSE IF top_count >= 10
        THEN [word |-> top_word, count |-> top_count,
              pct |-> Frac(top_count, NumCards(cards))]
        ELSE NoDetection

\* The detections list of detect_themes: (theme_name, details, base_points)
\* of the checks that returned a result, in the order of the checks.
Detections(non_basics) ==
    SelectSeq(<<[theme_name |-> "single_artist", base_points |-> 35,
                 details |-> CheckArtistConcentration(non_basics)],
                [theme_name |-> "set_restricted", base_points |-> 30,
                 details |-> CheckSetConcentration(non_basics)],
                [theme_name |-> "block_restricted", base_points |-> 25,
                 details |-> CheckBlockConcentration(non_basics)],
                [theme_name |-> "rarity_restricted", base_points |-> 20,
                 details |-> CheckRarityConcentration(non_basics)],
                [theme_name |-> "alphabet_deck", base_points |-> 15,
                 details |-> CheckAlphabetPattern(non_basics)],
                [theme_name |-> "cmc_restricted", base_points |-> 50,
                 details |-> CheckCmcConcentration(non_basics)],
                [theme_name |-> "frame_restricted", base_points |-> 25,
                 details |-> CheckFrameConcentration(non_basics)],
                [theme_name |-> "name_theme", base_points |-> 40,
                 details |-> CheckNameWordPattern(non_basics)]>>,
              LAMBDA d : d.details # NoDetection)

\* details.get("pct", details.get("coverage", 0.5))
ConcentrationOf(details) ==
    IF "pct" \in DOMAIN details THEN details.pct
    ELSE IF "coverage" \in DOMAIN details THEN details.coverage
    ELSE Frac(1, 2)

\* scaled_points = base_points * (0.5 + concentration * 0.5)
ScaledPoints(detection) ==
    FracMul(Whole(detection.base_points),
            FracAdd(Frac(1, 2),
                    FracMul(ConcentrationOf(detection.details), Frac(1, 2))))

RECURSIVE TotalScore(_)
TotalScore(detections) ==
    IF detections = <<>> THEN Whole(0)
    ELSE FracAdd(ScaledPoints(Head(detections)), TotalScore(Tail(detections)))

\* The result with which detect_themes starts.
EmptyResult ==
    [detected_themes |-> <<>>, theme_details |-> <<>>,
     restriction_score |-> Whole(0), restriction_description |-> NoDetection]

\* Mutant of DetectThemes: the basic lands are analyzed as well.
DetectThemesWithBasics(cards) ==
    IF NumCards(cards) < 20 THEN EmptyResult
    ELSE LET detections == Detections(cards)
         IN  [detected_themes |->
                  [i \in DOMAIN detections |-> detections[i].theme_name],
              theme_details |->
                  [i \in DOMAIN detections |-> detections[i].details],
              restriction_score |->
                  FracMin(Whole(100), TotalScore(detections)),
              restriction_description |->
                  IF detections = <<>> THEN NoDetection
                  ELSE [i \in DOMAIN detections |->
                            detections[i].theme_name]]

\* ThemeDetector.detect_themes
DetectThemes(cards) ==
    LET non_basics == NonBasics(cards)
        detections == Detections(non_basics)
    IN  IF NumCards(non_basics) < 20 THEN EmptyResult
        ELSE [detected_themes |->
                  [i \in DOMAIN detections |-> detections[i].theme_name],
              theme_details |->
                  [i \in DOMAIN detections |-> detections[i].details],
              restriction_score |->
                  FracMin(Whole(100), TotalScore(detections)),
              restriction_description |->
                  IF detections = <<>> THEN NoDetection
                  ELSE [i \in DOMAIN detections |->
                            detections[i].theme_name]]

\* The card groups drawn.
Named(card, copies, name) ==
    [card |-> card, copies |-> copies, names |-> [k \in 1..copies |-> name]]

GuayCommon ==
    [type_line |-> <<"Creature", "--", "Elemental">>, artist |-> "Rebecca Guay",
     set |-> "LRW", rarity |-> "common", cmc |-> 30, frame |-> "1997"]

OldStaple ==
    [type_line |-> <<"Artifact">>, artist |-> "Mark Tedin", set |-> "c13",
     rarity |-> "Uncommon", cmc |-> 10, frame |-> "2015"]

FetchLand ==
    [type_line |-> <<"Land">>, artist |-> "Shane Francis", set |-> "zen",
     rarity |-> "rare", cmc |-> 0, frame |-> "2003"]

GuayForest ==
    [type_line |-> <<"Basic", "Land", "--", "Forest">>,
     artist |-> "Rebecca Guay", set |-> "LRW", rarity |-> "common",
     cmc |-> 0, frame |-> "1997"]

Flipwalker ==
    [type_line |-> <<"Legendary", "Creature", "--", "Human", "Wizard">>,
     artist |-> "Jaime Jones", set |-> "ori", rarity |-> "mythic",
     cmc |-> 20, frame |-> "2015"]

\* A card of which only the name and the type are known.
BareCard ==
    [type_line |-> <<"Instant">>, artist |-> "", set |-> "", rarity |-> "",
     cmc |-> 30, frame |-> ""]

ThemeDecks ==
    {<<Named(GuayCommon, a, "Keeper of the Flame"),
       Named(OldStaple, b, "Sol Ring"),
       Named(FetchLand, c, "Misty Rainforest"),
       Named(GuayForest, d, "Forest"),
       [card |-> BareCard, copies |-> e,
        names |-> SubSeq(Alphabet, 1, e)],
       Named(Flipwalker, f,
             "Jace, Vryn's Prodigy // Jace, Telepath Unbound")>> :
        a \in {0, 9, 10, 19, 20}, b \in {0, 1, 5}, c \in {0, 10},
        d \in {0, 30}, e \in {0, 25, 26}, f \in {0, 10, 20}}

\* DeckAnalyzer._detect_theme_restrictions
DetectThemeRestrictions ==
    /\ pc = "theme_args"
    /\ ret' = DetectThemes(deck)
    /\ env' = [env EXCEPT
                   !.detections = IF NumCards(NonBasics(deck)) < 20 THEN <<>>
                                  ELSE Detections(NonBasics(deck))]
    /\ pc' = "themes_detected"
    /\ UNCHANGED <<decklist, resolver, intake, deck, analysis, args,
                   bracket, reasons, lines>>

InitThemes ==
    /\ decklist = <<>>
    /\ resolver = NoResolver
    /\ intake = NoIntake
    /\ ret = <<>>
    /\ deck \in ThemeDecks
    /\ env = [detections |-> <<>>]
    /\ analysis = NoAnalysis
    /\ args = NoArgs
    /\ pc = "theme_args"
    /\ bracket = 0
    /\ reasons = <<>>
    /\ lines = <<>>

NextThemes == DetectThemeRestrictions

SpecThemes == InitThemes /\ [][NextThemes]_vars

(***************************************************************************)
(* The claims.                                                             *)
(***************************************************************************)
Returned == pc \in {"done", "rendered"}

OverrideFires == ~args.has_mass_ld /\ args.bracket1_likelihood >= 70

HasReason(text) == \E i \in 1..Len(reasons) : reasons[i][1] = text

HasDefaultReason ==
    /\ HasReason("No significant power indicators found")
    /\ HasReason("Deck appears to be at precon power level")

\* C1: with mass land denial absent and a Bracket-1 likelihood of 70 or more,
\* the returned bracket is exactly 1, whatever the other inputs are.
C1_OverrideReturnsBracketOne ==
    (Returned /\ OverrideFires) => bracket = 1

\* C2: within one run the running bracket never decreases from one step to
\* the next, the Bracket-1 override and the cEDH step included.
C2_BracketNeverDecreases == [][bracket' >= bracket]_vars

\* C2 (amended): the only step that lowers the running bracket is the
\* Bracket-1 override, which takes it from the baseline 2 to 1; every other
\* step leaves it at least as high as it found it.
C2_OnlyOverrideLowers ==
    [][\/ bracket' >= bracket
       \/ pc = "theme" /\ OverrideFires /\ bracket = 2 /\ bracket' = 1]_vars

C2_Witness ==
    /\ pc = "done"
    /\ OverrideFires
    /\ args.cedh_signals >= 12
    /\ "combo" \in args.archetypes
    /\ bracket = 5

\* C3: a deck that holds a card of the mass-land-denial list has Bracket-1
\* likelihood 0, whatever its synergy score, restriction score and counts.
C3_MassLandDenialVetoesLikelihood ==
    (/\ pc \notin {"detect", "score"}
     /\ \E i \in 1..Len(deck) :
            Lower(deck[i].name) \in LowerAll(MASS_LAND_DENIAL))
    => (/\ analysis.bracket1_likelihood = 0
        /\ pc # "call" => args.bracket1_likelihood = 0)

C3_Witness ==
    /\ pc = "call"
    /\ \E i \in 1..Len(deck) : deck[i].name = "Armageddon"
    /\ env.restriction_score >= 50
    /\ env.synergy_score < 40
    /\ analysis.fast_mana = <<>>
    /\ analysis.all_tutors = <<>>

\* C4: with mass land denial present the Bracket-1 override does not take
\* effect and the returned bracket is at least 4, never 1.
C4_MassLandDenialForcesFour ==
    args.has_mass_ld =>
        /\ pc = "cedh" => bracket = 2
        /\ Returned => (bracket >= 4 /\ bracket # 1)

C4_Witness ==
    /\ Returned
    /\ args.has_mass_ld
    /\ args.bracket1_likelihood >= 70
    /\ bracket = 4

C6_Floors ==
    {2,
     IF args.combo_data.has_cedh_combos THEN 4
     ELSE IF args.combo_data.combo_count >= 2 THEN 3 ELSE 0,
     IF args.game_changers_count > 3 THEN 4
     ELSE IF args.game_changers_count >= 1 THEN 3 ELSE 0,
     IF args.has_mass_ld THEN 4 ELSE 0,
     IF args.extra_turn_count >= 3 THEN 4
     ELSE IF args.extra_turn_count >= 1 THEN 3 ELSE 0,
     IF args.tutor_score >= 2 * 12 THEN 4
     ELSE IF args.tutor_score >= 2 * 6 THEN 3 ELSE 0,
     IF args.fast_mana_count >= 4 THEN 4
     ELSE IF args.fast_mana_count >= 2 THEN 3 ELSE 0,
     IF args.staple_count >= 10 THEN 4
     ELSE IF args.staple_count >= 5 THEN 3 ELSE 0,
     IF "combo" \in args.archetypes THEN 3 ELSE 0}

C6_BracketIsMaxOfFloors ==
    (Returned /\ ~OverrideFires /\ args.cedh_signals < 12)
    => (bracket \in C6_Floors /\ \A f \in C6_Floors : f <= bracket)

C6_Witness ==
    /\ Returned
    /\ ~OverrideFires
    /\ args.cedh_signals < 12
    /\ args.combo_data.combo_count = 1
    /\ ~args.combo_data.has_cedh_combos
    /\ bracket = 2

\* C7: a Bracket-1 likelihood of 50-69 (no mass land denial) does not
\* override: the returned bracket is the one returned for the same other
\* inputs with a likelihood below 50, and the reason list is that call's
\* reason list with advisory lines in front of it.
C7_AdvisoryTexts ==
    {"Possible theme deck", "Detected", "Game Changer(s) - verify if thematic"}

C7_AdvisoryDoesNotOverride ==
    (/\ Returned
     /\ ~args.has_mass_ld
     /\ args.bracket1_likelihood >= 50
     /\ args.bracket1_likelihood <= 69)
    => \A low \in {0, 49} :
          LET o == CalculateBracketEnhanced([args EXCEPT !.bracket1_likelihood = low])
              n == Len(reasons) - Len(o.reasons)
          IN  /\ bracket = o.bracket
              /\ n >= 1
              /\ SubSeq(reasons, n + 1, Len(reasons)) = o.reasons
              /\ \A i \in 1..n : reasons[i][1] \in C7_AdvisoryTexts
              /\ \A i \in 1..Len(o.reasons) : o.reasons[i][1] \notin C7_AdvisoryTexts

C7_Witness ==
    /\ Returned
    /\ ~args.has_mass_ld
    /\ args.bracket1_likelihood = 69
    /\ args.game_changers_count = 1
    /\ Len(reasons) >= 4
    /\ bracket = 3

\* C8: the reason list is in evaluation order (theme, cEDH, combos, Game
\* Changers, mass land denial, extra turns, tutor score, fast mana, staples,
\* combo archetype, default) and is rendered in that order.
C8_StepOfReason(text) ==
    CASE text \in {"Theme deck detected", "Bracket 1 likelihood",
                   "Game Changer(s) may be thematic exceptions",
                   "Low synergy suggests restricted card pool",
                   "Possible theme deck", "Detected",
                   "Game Changer(s) - verify if thematic"} -> 1
      [] text \in {"cEDH signals detected",
                   "Deck appears optimized for competitive play"} -> 2
      [] text \in {"cEDH-level combo(s)", "verified combo(s) with bracket impact",
                   "verified combo(s)", "Has 1 verified combo",
                   "Verified combos found"} -> 3
      [] text \in {"Game Changers (>3 requires Bracket 4+)",
                   "Game Changer(s) (requires Bracket 3+)"} -> 4
      [] text = "Contains mass land denial" -> 5
      [] text \in {"extra turn cards (high density)", "extra turn card(s)"} -> 6
      [] text \in {"High tutor density", "Moderate tutor density"} -> 7
      [] text \in {"High fast mana count", "fast mana pieces"} -> 8
      [] text \in {"High staple density", "high-power staples"} -> 9
      [] text = "Deck has combo elements" -> 10
      [] text \in {"No significant power indicators found",
                   "Deck appears to be at precon power level"} -> 11
      [] OTHER -> 0

C8_ReasonsInEvaluationOrder ==
    /\ \A i \in 1..Len(reasons) : C8_StepOfReason(reasons[i][1]) >= 1
    /\ \A i, j \in 1..Len(reasons) :
          i < j => C8_StepOfReason(reasons[i][1]) <= C8_StepOfReason(reasons[j][1])
    /\ pc = "rendered" =>
          /\ Len(lines) = Len(reasons)
          /\ \A i \in 1..Len(reasons) : lines[i][2] = reasons[i]

C8_Witness ==
    /\ pc = "rendered"
    /\ HasReason("Possible theme deck")
    /\ HasReason("cEDH signals detected")
    /\ HasReason("Game Changers (>3 requires Bracket 4+)")
    /\ HasReason("extra turn card(s)")
    /\ HasReason("High staple density")

\* C9: the default reason is in the returned list exactly when the returned
\* bracket is 2, which is exactly when no step changed the bracket from its
\* baseline (a bracket that has left 2 never comes back to it).
C9_DefaultIffBracketTwo ==
    /\ [](Returned => (HasDefaultReason <=> bracket = 2))
    /\ [](Returned =>
            (HasReason("No significant power indicators found") <=> bracket = 2))
    /\ [][(pc # "call" /\ bracket # 2) => bracket' # 2]_vars

C9_Witness ==
    /\ Returned
    /\ args.bracket1_likelihood >= 50
    /\ args.combo_data.combo_count = 1
    /\ bracket = 2
    /\ HasDefaultReason

\* C10: a deck with no tutors, no fast mana, no Game Changers, no confirmed
\* combos and no detected theme gets bracket 2 and the default reason.
C10_NoSignals ==
    /\ analysis.all_tutors = <<>>
    /\ analysis.fast_mana = <<>>
    /\ analysis.game_changers = <<>>
    /\ analysis.combo_data.combo_count = 0
    /\ env.restriction_score = 0

C10_NoSignalsGivesBracketTwo ==
    (Returned /\ C10_NoSignals) => (bracket = 2 /\ HasDefaultReason)

\* C10 (amended): ... and also no mass-land-denial card, no extra-turn card,
\* fewer than 5 high-power staples, no "combo" archetype tag and a cEDH
\* signal total below 12 gets bracket 2 and the default reason.
C10_NoSignalsAtAllGivesBracketTwo ==
    (/\ Returned
     /\ C10_NoSignals
     /\ analysis.mass_ld = <<>>
     /\ analysis.extra_turns = <<>>
     /\ Len(analysis.high_power_staples) < 5
     /\ "combo" \notin env.archetypes
     /\ analysis.cedh_signals < 12)
    => (bracket = 2 /\ HasDefaultReason)

C10_Witness ==
    /\ Returned
    /\ C10_NoSignals
    /\ deck = DeckOf(FreeSpells)
    /\ env.cedh_commander_tier = 1
    /\ env.synergy_score < 40
    /\ analysis.cedh_signals = 11
    /\ bracket = 2
    /\ HasDefaultReason

\* C16: count_cards_with_quantity returns the sum of the entries' quantities,
\* an entry without a quantity counting as 1, and not the number of entries:
\* one entry with quantity 30 counts as 30.
C16_CountIsSumOfQuantities ==
    pc = "counted" =>
        /\ ret = BagCardinality([i \in 1..Len(deck) |-> Quantity(deck[i])])
        /\ \A i \in 1..Len(deck) :
              /\ "quantity" \notin DOMAIN deck[i] =>
                    ret = 1 + CountCardsWithQuantity(
                                  SubSeq(deck, 1, i - 1) \o SubSeq(deck, i + 1, Len(deck)))
        /\ (Len(deck) = 1 /\ "quantity" \in DOMAIN deck[1]
              /\ deck[1].quantity = 30) => ret = 30

C16_Witness ==
    /\ pc = "counted"
    /\ Len(deck) = 3
    /\ \E i, j \in 1..3 :
          /\ "quantity" \notin DOMAIN deck[i]
          /\ "quantity" \in DOMAIN deck[j] /\ deck[j].quantity = 30
    /\ ret > 30

\* C17: the categorizer places every card in exactly one of the eight
\* buckets, the first that matches in the order creature, instant, sorcery,
\* artifact, enchantment, land, planeswalker, else other; a card whose type
\* line has both 'artifact' and 'creature' is in creatures, never in artifacts.
C17_Order ==
    <<"creature", "instant", "sorcery", "artifact", "enchantment", "land",
      "planeswalker">>

C17_Bucket(word) ==
    CASE word = "creature" -> "creatures"
      [] word = "instant" -> "instants"
      [] word = "sorcery" -> "sorceries"
      [] word = "artifact" -> "artifacts"
      [] word = "enchantment" -> "enchantments"
      [] word = "land" -> "lands"
      [] word = "planeswalker" -> "planeswalkers"

C17_FirstMatch(name) ==
    LET hits == {i \in 1..Len(C17_Order) : TypeLineHas(name, C17_Order[i])}
    IN  IF hits = {} THEN "other"
        ELSE C17_Bucket(C17_Order[CHOOSE i \in hits : \A j \in hits : i <= j])

C17_In(bucket, name) == \E j \in 1..Len(bucket) : bucket[j].name = name

C17_FirstMatchingBucket ==
    pc = "categorized" =>
        /\ DOMAIN ret = Categories
        /\ Len(ret.creatures) + Len(ret.instants) + Len(ret.sorceries)
             + Len(ret.artifacts) + Len(ret.enchantments) + Len(ret.lands)
             + Len(ret.planeswalkers) + Len(ret.other) = Len(deck)
        /\ \A i \in 1..Len(deck) :
              /\ C17_In(ret[C17_FirstMatch(deck[i].name)], deck[i].name)
              /\ \A k \in Categories \ {C17_FirstMatch(deck[i].name)} :
                    ~C17_In(ret[k], deck[i].name)
              /\ (TypeLineHas(deck[i].name, "artifact")
                    /\ TypeLineHas(deck[i].name, "creature"))
                 => (/\ C17_In(ret.creatures, deck[i].name)
                     /\ ~C17_In(ret.artifacts, deck[i].name))

C17_Witness ==
    /\ pc = "categorized"
    /\ Names(deck) = <<"Solemn Simulacrum", "Seat of the Synod",
                       "Tomb of Annihilation">>
    /\ Names(ret.creatures) = <<"Solemn Simulacrum">>
    /\ Names(ret.artifacts) = <<"Seat of the Synod">>
    /\ Names(ret.other) = <<"Tomb of Annihilation">>

\* C18: every deck card identified as a tutor (its full name, or for a
\* double-faced card its front-face name, is in the tutor database) is
\* recorded exactly once, under its full name, in exactly one tier list: the
\* curated tier when a curated list has its name (case-insensitive),
\* otherwise by mana value (<= 1 premium, <= 2 efficient, <= 3 standard,
\* > 3 slow); cards that are not tutors are in no tier list.
C18_Tiers == {"premium", "efficient", "standard", "slow"}

C18_Count(seq, x) == Cardinality({j \in 1..Len(seq) : seq[j] = x})

C18_Identified(name) ==
    LET db == DOMAIN FetchNonRampTutors(env.tutor_api)
    IN  name \in db \/ (HasFaces(name) /\ FrontFace(name) \in db)

C18_Tier(name) ==
    CASE Lower(name) \in LowerAll(TUTORS_PREMIUM) -> "premium"
      [] Lower(name) \in LowerAll(TUTORS_EFFICIENT) -> "efficient"
      [] Lower(name) \in LowerAll(TUTORS_STANDARD) -> "standard"
      [] Lower(name) \in LowerAll(TUTORS_SLOW) -> "slow"
      [] OTHER -> IF Cmc(name) <= 10 THEN "premium"
                  ELSE IF Cmc(name) <= 20 THEN "efficient"
                  ELSE IF Cmc(name) <= 30 THEN "standard"
                  ELSE "slow"

C18_EveryTutorOnceInItsTier ==
    pc = "classified" =>
        /\ DOMAIN ret = C18_Tiers
        /\ \A i \in 1..Len(deck) :
              LET name == deck[i].name
              IN  IF C18_Identified(name)
                  THEN /\ C18_Count(ret[C18_Tier(name)], name)
                            = C18_Count(Names(deck), name)
                       /\ \A t \in C18_Tiers \ {C18_Tier(name)} :
                             C18_Count(ret[t], name) = 0
                  ELSE \A t \in C18_Tiers : C18_Count(ret[t], name) = 0
        /\ \A t \in C18_Tiers : \A j \in 1..Len(ret[t]) :
              \E i \in 1..Len(deck) : deck[i].name = ret[t][j]

C18_Witness ==
    /\ pc = "classified"
    /\ env.tutor_api
    /\ Names(deck) = <<DoubleFaced, "Dimir Machinations", "Sol Ring">>
    /\ ret.standard = <<DoubleFaced>>
    /\ ret.premium = <<"Dimir Machinations">>

\* C19: the cEDH signal total is the sum of these contributions and nothing
\* else: commander tier 1 -> 4, tier 2 -> 2; fast mana >= 6 -> count, 3..5 ->
\* count - 2; free interaction >= 3 -> count; mean mana value < 2.0 -> 2, else
\* < 2.5 -> 1; effective lands <= 31 -> 1; top-tier combos -> min(2 x count,
\* 4); tutor score >= 15 -> 2, else >= 10 -> 1; stax >= 5 -> 2, else >= 3 -> 1.
\* It is never negative and equals the sum of the breakdown map's values.
RECURSIVE C19_SumOfValues(_)
C19_SumOfValues(pairs) ==
    IF pairs = {} THEN 0
    ELSE LET p == CHOOSE q \in pairs : TRUE
         IN  p[2] + C19_SumOfValues(pairs \ {p})

C19_Contributions ==
    (CASE args.cedh_commander_tier = 1 -> 4
       [] args.cedh_commander_tier = 2 -> 2
       [] OTHER -> 0)
    + (CASE args.fast_mana_count >= 6 -> args.fast_mana_count
         [] args.fast_mana_count \in 3..5 -> args.fast_mana_count - 2
         [] OTHER -> 0)
    + (IF args.free_interaction_count >= 3 THEN args.free_interaction_count ELSE 0)
    + (CASE args.avg_cmc < 200 -> 2
         [] args.avg_cmc >= 200 /\ args.avg_cmc < 250 -> 1
         [] OTHER -> 0)
    + (IF args.land_count <= 31 THEN 1 ELSE 0)
    + (IF args.combo_data.cedh_combo_count > 0
       THEN Min(2 * args.combo_data.cedh_combo_count, 4) ELSE 0)
    + (CASE args.tutor_score >= 2 * 15 -> 2
         [] args.tutor_score < 2 * 15 /\ args.tutor_score >= 2 * 10 -> 1
         [] OTHER -> 0)
    + (CASE args.stax_count >= 5 -> 2
         [] args.stax_count \in 3..4 -> 1
         [] OTHER -> 0)

C19_TotalIsSumOfContributions ==
    pc = "cedh_signals" =>
        /\ ret.signals = C19_Contributions
        /\ ret.signals >= 0
        /\ ret.signals = C19_SumOfValues(ret.breakdown)
        /\ \A p, q \in ret.breakdown : p[1] = q[1] => p = q
        /\ \A p \in ret.breakdown : p[2] >= 0

C19_Witness ==
    /\ pc = "cedh_signals"
    /\ args.cedh_commander_tier = 2
    /\ args.fast_mana_count = 5
    /\ args.free_interaction_count = 3
    /\ args.avg_cmc = 200
    /\ args.land_count = 31
    /\ args.combo_data.cedh_combo_count = 3
    /\ args.tutor_score = 20
    /\ args.stax_count = 3
    /\ ret.signals = 2 + 3 + 3 + 1 + 1 + 4 + 1 + 1

\* C20: without mass land denial the Bracket-1 likelihood is the clamp to
\* [0,100] of (60 if restriction >= 50 else 40) + (10 if synergy < 40)
\* + (20 if restriction >= 15 and synergy < 40) + (5 if no fast mana)
\* + (5 if no tutors) - (min(30, 10 x Game Changers) if Game Changers > 0 and
\* restriction < 25); the result always lies in [0,100].
C20_Sum ==
    (IF args.restriction_score >= 50 THEN 60 ELSE 40)
    + (IF args.synergy_score < 40 THEN 10 ELSE 0)
    + (IF args.restriction_score >= 15 /\ args.synergy_score < 40 THEN 20 ELSE 0)
    + (IF args.fast_mana_count = 0 THEN 5 ELSE 0)
    + (IF args.tutor_count = 0 THEN 5 ELSE 0)
    - (IF args.game_changers_count > 0 /\ args.restriction_score < 25
       THEN Min(30, 10 * args.game_changers_count) ELSE 0)

C20_LikelihoodFormula ==
    pc = "likelihood" =>
        /\ ~args.has_mass_land_denial =>
              ret = (IF C20_Sum < 0 THEN 0 ELSE IF C20_Sum > 100 THEN 100
                     ELSE C20_Sum)
        /\ ret \in 0..100

C20_Witness ==
    /\ pc = "likelihood"
    /\ ~args.has_mass_land_denial
    /\ args.restriction_score = 24
    /\ args.synergy_score = 39
    /\ args.game_changers_count = 4
    /\ args.fast_mana_count = 0
    /\ args.tutor_count = 1
    /\ ret = 40 + 10 + 20 + 5 - 30

(***************************************************************************)
(* Claims about analyze_deck from the decklist (SpecIntake).               *)
(***************************************************************************)
ScenarioReturned ==
    pc = "returned" /\ decklist = ScenarioDecklist /\ resolver.online

\* C11 (as stated): for the decklist 1 Sol Ring + 1 Demonic Tutor + 1 Rhystic
\* Study + 1 Cyclonic Rift + 96 Island, all resolved, the analysis finds
\* exactly 2 Game Changers (Rhystic Study and Cyclonic Rift), the bracket is
\* at least 3 with the reason "2 Game Changer(s)", and the total is 100.
C11_ScenarioFindsTwoGameChangers ==
    ScenarioReturned =>
        /\ ret.game_changers_found = <<"Rhystic Study", "Cyclonic Rift">>
        /\ ret.game_changers_count = 2
        /\ ret.suggested_bracket >= 3
        /\ \E i \in 1..Len(ret.bracket_reasoning) :
               ret.bracket_reasoning[i]
                   = <<"Game Changer(s) (requires Bracket 3+)", 2>>
        /\ ret.total_cards = 100

\* C11 (amended): with the Game Changers list of config.py, for that decklist
\* the analysis finds exactly 3 Game Changers (Demonic Tutor, Rhystic Study
\* and Cyclonic Rift, in decklist order), the bracket is at least 3 with the
\* reason "3 Game Changer(s)", and the total card count is 100.
C11_ScenarioFindsThreeGameChangers ==
    ScenarioReturned =>
        /\ ret.game_changers_found
               = <<"Demonic Tutor", "Rhystic Study", "Cyclonic Rift">>
        /\ ret.game_changers_count = 3
        /\ ret.suggested_bracket >= 3
        /\ \E i \in 1..Len(ret.bracket_reasoning) :
               ret.bracket_reasoning[i]
                   = <<"Game Changer(s) (requires Bracket 3+)", 3>>
        /\ ret.total_cards = 100

C11_Witness ==
    /\ ScenarioReturned
    /\ Len(ret.all_cards) = 5
    /\ ret.game_changers_count = 3
    /\ ret.suggested_bracket = 3
    /\ ret.total_cards = 100

\* C12 (as stated): no two entries of all_cards have the same resolved card
\* name, compared case-insensitively, for every decklist.
C12_NoTwoEntriesShareAName ==
    \A i, j \in 1..Len(deck) :
        i # j => Lower(deck[i].name) # Lower(deck[j].name)

\* C13 (as stated): when no name of the decklist resolves, analyze_deck does
\* not return a DeckAnalysis carrying a suggested bracket; when at least one
\* name resolves, the returned analysis is made on the resolved cards only.
C13_EmptyCardSetIsAHardStop ==
    pc = "returned" =>
        /\ ret.all_cards # <<>>
        /\ \A i \in 1..Len(ret.all_cards) :
               ret.all_cards[i].name \in resolver.known

\* The copies of a card in the decklist, over all its lines (the card is
\* given by its lowercased name), and whether they exceed what the format
\* allows: any number of a basic land or of an unlimited-copies card, the
\* cap of a capped card, one copy of any other card.
RECURSIVE C14_Copies(_, _)
C14_Copies(parsed_cards, key) ==
    IF parsed_cards = <<>> THEN 0
    ELSE (IF Lower(Head(parsed_cards).name) = key
          THEN Head(parsed_cards).quantity ELSE 0)
         + C14_Copies(Tail(parsed_cards), key)

C14_BeyondAllowance(parsed_cards, key) ==
    /\ key \notin BASIC_LAND_NAMES
    /\ key \notin UNLIMITED_COPIES_CARDS
    /\ C14_Copies(parsed_cards, key) >
           (IF key \in DOMAIN LIMITED_COPIES_CARDS
            THEN LIMITED_COPIES_CARDS[key] ELSE 1)

C14_Warned(key) ==
    \E i \in 1..Len(ret.legality_warnings) :
        Lower(ret.legality_warnings[i].name) = key

\* C14 (as stated): in the returned DeckAnalysis there is a legality warning
\* for every card of the decklist that is present in more copies than the
\* format allows and for no other card, and the bracket is computed.
C14_WarningForEveryCardBeyondAllowance ==
    pc = "returned" =>
        /\ ret.suggested_bracket \in 1..5
        /\ \A i \in 1..Len(intake.parsed_cards) :
               LET key == Lower(intake.parsed_cards[i].name)
               IN  C14_BeyondAllowance(intake.parsed_cards, key)
                       <=> C14_Warned(key)

\* C15: when the Commander Spellbook lookup fails (client not importable,
\* call raises, or no result), the combo data of the returned DeckAnalysis is
\* the neutral default (no confirmed combo, no top-tier flag, bracket impact
\* 0, no near miss) and the suggested bracket and its reasons are those that
\* _calculate_bracket_enhanced gives for the other signals with neutral
\* combo data.
C15_NeutralDefaultOnSpellbookFailure ==
    (pc = "returned" /\ ~env.spellbook.answered) =>
        /\ ret.verified_combos = <<>>
        /\ ret.combo_count = 0
        /\ ~ret.has_cedh_combos
        /\ ret.near_miss_combos = <<>>
        /\ analysis.combo_data.bracket_impact = 0
        /\ LET local == CalculateBracketEnhanced(
                            [args EXCEPT !.combo_data = NeutralComboData])
           IN  /\ ret.suggested_bracket = local.bracket
               /\ ret.bracket_reasoning = local.reasons
        /\ ret.suggested_bracket \in 1..5

C15_Witness ==
    /\ pc = "returned"
    /\ env.spellbook.failure = "raised"
    /\ ret.combo_count = 0
    /\ ret.game_changers_count = 1
    /\ ret.suggested_bracket = 3

\* The quantities of the parsed entries that the resolver resolved.
RECURSIVE C29_ResolvedQuantity(_, _)
C29_ResolvedQuantity(parsed_cards, card_data_map) ==
    IF parsed_cards = <<>> THEN 0
    ELSE LET key == Lower(Head(parsed_cards).name)
         IN  (IF key \in DOMAIN card_data_map /\ card_data_map[key] # None
              THEN Head(parsed_cards).quantity ELSE 0)
             + C29_ResolvedQuantity(Tail(parsed_cards), card_data_map)

\* C29 (as stated): total_cards of the returned DeckAnalysis is the sum of
\* the quantities of the parsed entries that were resolved, for every
\* decklist, also when one card is listed on several lines.
C29_TotalIsSumOfResolvedQuantities ==
    pc = "returned" =>
        ret.total_cards
            = C29_ResolvedQuantity(intake.parsed_cards, intake.card_data_map)

C30_CurveTotal == ret.mana_curve[0] + ret.mana_curve[1] + ret.mana_curve[2]
                    + ret.mana_curve[3] + ret.mana_curve[4] + ret.mana_curve[5]
                    + ret.mana_curve[6] + ret.mana_curve[7]

\* C30 (as stated): in every DeckAnalysis the mana-curve counts add up to
\* total_cards minus the quantity-aware count of the lands category.
C30_CurveLeavesOutTheLandsCategory ==
    pc = "returned" =>
        C30_CurveTotal = ret.total_cards - CountCardsWithQuantity(ret.lands)

\* C30 (amended): the mana-curve counts add up to total_cards minus the
\* copies of the cards whose type line contains "land"; these are the cards
\* of the lands category and the land cards that the categorizer files under
\* an earlier type (a land creature under creatures).
C30_CurveLeavesOutEveryLandCard ==
    pc = "returned" =>
        /\ C30_CurveTotal
               = ret.total_cards
                   - CountCardsWithQuantity(
                         SelectSeq(ret.all_cards,
                                   LAMBDA c : TypeLineHas(c.name, "land")))
        /\ \A i \in 1..Len(ret.lands) : TypeLineHas(ret.lands[i].name, "land")

C30_Witness ==
    /\ pc = "returned"
    /\ \E i \in 1..Len(ret.all_cards) : ret.all_cards[i].name = "Dryad Arbor"
    /\ ret.lands = <<>>
    /\ ret.mana_curve[1] = 4
    /\ ret.total_cards = 5

\* C27 (as stated): fetch_non_ramp_tutors eventually returns a tutor
\* dictionary, whatever the server answers to its requests.
C27_FetchTutorsTerminates == <>(pc = "tutors_returned")

\* C26 (as stated): when the official Game Changers list cannot be fetched
\* (network error or a status other than 200), the analyzer's set is the
\* lowercased local GAME_CHANGERS list, so that a deck with a locally listed
\* Game Changer has it detected; the list is fetched at most once per
\* analyzer.
C26_FallsBackToLocalList ==
    /\ env.searches <= 1
    /\ (/\ pc = "game_changers_found"
        /\ env.analyses = 1
        /\ resolver.search \in {"network error", "http error"})
       => /\ env.game_changers_cache = LowerAll(GAME_CHANGERS)
          /\ \A i \in 1..Len(deck) :
                 deck[i].name \in GAME_CHANGERS
                     => \E j \in 1..Len(ret) : ret[j] = deck[i].name

(***************************************************************************)
(* Claims about parse_decklist (SpecParse).                                *)
(***************************************************************************)
\* The lines that are to yield no entry: blank, starting with "#" or "//",
\* COMMANDER / SIDEBOARD headers.
C25_Ignored(line) ==
    \/ line.first = <<>>
    \/ line.first[1] = "#"
    \/ Len(line.first) >= 2 /\ SubSeq(line.first, 1, 2) = <<"/", "/">>
    \/ \E head \in {<<"C", "O", "M", "M", "A", "N", "D", "E", "R">>,
                    <<"S", "I", "D", "E", "B", "O", "A", "R", "D">>} :
           /\ Len(line.first) >= 9
           /\ [i \in 1..9 |-> Upper(line.first[i])] = head

\* The first token reads "<n>" or "<n>x": digits, then at most one x or X.
C25_Number(first) ==
    IF first # <<>> /\ first[Len(first)] \in {"x", "X"}
    THEN SubSeq(first, 1, Len(first) - 1) ELSE first

C25_HasNumber(line) ==
    /\ line.rest # ""
    /\ C25_Number(line.first) # <<>>
    /\ \A i \in 1..Len(C25_Number(line.first)) :
           IsDigit(C25_Number(line.first)[i])

\* C25 (as stated): every entry returned by parse_decklist has a quantity of
\* at least 1; a line "<n> <name>" or "<n>x <name>" yields quantity n and the
\* name, a line whose first token is no integer yields quantity 1 and the
\* whole line as the name, and the ignored lines yield no entry.
C25_EntriesHavePositiveQuantity ==
    pc = "parsed" =>
        LET kept == SelectSeq(decklist, LAMBDA l : ~C25_Ignored(l))
        IN  /\ Len(ret) = Len(kept)
            /\ \A i \in 1..Len(ret) :
                   /\ ret[i].quantity >= 1
                   /\ C25_HasNumber(kept[i]) =>
                          /\ ret[i].quantity
                                 = DigitsValue(C25_Number(kept[i].first))
                          /\ ret[i].name = kept[i].rest
                   /\ ~IsInt(Rstrip(Rstrip(kept[i].first, "x"), "X")) =>
                          /\ ret[i].quantity = 1
                          /\ ret[i].name = LineText(kept[i])

(***************************************************************************)
(* Claims about the synergy score (SpecSynergy).                           *)
(***************************************************************************)
\* The sample that the tribal detector of synergy.py has analyzed.
C24_Sample == NonBasics(deck)

\* C24 (as stated): the tribal sub-score is 0 whenever the analyzed sample
\* holds fewer than 10 creatures, whatever the oracle texts mention.
C24_NeutralBelowTenCreatures ==
    (pc = "synergy_scored" /\ CreatureCount(C24_Sample) < 10)
        => env.tribal_score = Whole(0)

\* The credit that the type-line count of a creature type earns.
C23_TypeLineCredit(cards, creature_type) ==
    LET share == Frac(TypeLineCounts(cards, creature_type) * 50,
                      CreatureCount(cards))
    IN  IF OracleMentions(cards, creature_type) >= 5 THEN share
        ELSE IF OracleMentions(cards, creature_type) >= 2
        THEN FracMul(share, Frac(1, 2))
        ELSE Whole(0)

C23_Total(cards, creature_type) ==
    FracAdd(Whole(3 * OracleMentions(cards, creature_type)),
            C23_TypeLineCredit(cards, creature_type))

\* The same cards with the tribal types taken out of their oracle texts.
C23_Silent(oracle_text) ==
    CASE oracle_text = "Whenever an Elf enters the battlefield, add G."
             -> "When this creature enters the battlefield, add G."
      [] oracle_text = "Other Elves you control get +1/+1."
             -> "Other creatures you control get +1/+1."
      [] oracle_text = "Draw cards equal to Elves you control."
             -> "Draw a card."
      [] OTHER -> oracle_text

C23_WithoutMentions(cards) ==
    [i \in DOMAIN cards |->
        [cards[i] EXCEPT !.card.oracle_text = C23_Silent(@)]]

C23_Mentioned(cards) ==
    \E t \in AllTypes(cards) : OracleMentions(cards, t) > 0

\* The tribal sub-score is the best total of a type, capped at 80, where a
\* type's total is 3 per mentioning card plus its type-line credit; and
\* without any mention it is 0.
C23_IntentRule ==
    (pc = "synergy_scored" /\ env.synergy_import
     /\ NumCards(NonBasics(deck)) >= 20
     /\ CreatureCount(NonBasics(deck)) >= 10)
        => LET cards == NonBasics(deck)
           IN  /\ \E t \in AllTypes(cards) :
                      /\ env.tribal_score
                             = FracMin(Whole(80), C23_Total(cards, t))
                      /\ \A u \in AllTypes(cards) :
                             ~FracLess(C23_Total(cards, t),
                                       C23_Total(cards, u))
               /\ ~C23_Mentioned(cards) => env.tribal_score = Whole(0)
               /\ GetTribalDensity(NonBasics(C23_WithoutMentions(deck)))
                      = Whole(0)

C23_MentionsCount ==
    \/ ~FracLess(env.tribal_score, FracAdd(env.theme_score, Frac(1, 100)))
    \/ FracLess(Whole(20), env.tribal_score)
           /\ FracLess(Whole(20), env.theme_score)

C28_LikelihoodNeedsTheme ==
    \A a \in LikelihoodArgs :
        GetBracket1Likelihood(a.synergy_score, a.restriction_score,
                              a.game_changers_count, a.fast_mana_count,
                              a.tutor_count, a.has_mass_land_denial)
            >= Bracket1OverrideThreshold
        => a.restriction_score >= 15

C21_Considered ==
    SelectSeq(deck, LAMBDA g : \A i \in 1..Len(g.card.type_line) :
                                   g.card.type_line[i] # "Basic")

\* C21: detect_themes considers only the cards whose type line does not
\* contain "Basic", and with fewer than 20 of them it returns the empty
\* result: no detected themes, restriction score 0, no description.
C21_OnlyNonBasicsAndAtLeastTwenty ==
    pc = "themes_detected" =>
        /\ ret = DetectThemes(C21_Considered)
        /\ NumCards(C21_Considered) < 20 =>
               /\ ret.detected_themes = <<>>
               /\ ret.restriction_score = Whole(0)
               /\ ret.restriction_description = NoDetection

C21_Witness ==
    /\ pc = "themes_detected"
    /\ NumCards(C21_Considered) = 19
    /\ NumCards(deck) = 49
    /\ deck[1].copies = 19
    /\ ret.detected_themes = <<>>
    /\ ret.restriction_score = Whole(0)
    /\ ret.restriction_description = NoDetection

\* The base weight of a theme.
C22_BaseWeight(theme_name) ==
    CASE theme_name = "single_artist" -> 35
      [] theme_name = "set_restricted" -> 30
      [] theme_name = "block_restricted" -> 25
      [] theme_name = "rarity_restricted" -> 20
      [] theme_name = "alphabet_deck" -> 15
      [] theme_name = "cmc_restricted" -> 50
      [] theme_name = "frame_restricted" -> 25
      [] theme_name = "name_theme" -> 40

C22_Contribution(detection) ==
    FracMul(Whole(C22_BaseWeight(detection.theme_name)),
            FracAdd(Frac(1, 2),
                    FracMul(Frac(1, 2), ConcentrationOf(detection.details))))

RECURSIVE C22_Sum(_)
C22_Sum(detections) ==
    IF detections = <<>> THEN Whole(0)
    ELSE FracAdd(C22_Contribution(Head(detections)),
                 C22_Sum(Tail(detections)))

\* C22: the restriction score is min(100, sum of base weight x (0.5 + 0.5 x
\* share) over the emitted detections); it is 0 when nothing is detected,
\* lies in [0, 100], and every detection contributes between half of its
\* base weight and its base weight.
C22_ScoreIsCappedSumOfBoundedShares ==
    pc = "themes_detected" =>
        /\ ret.restriction_score
               = FracMin(Whole(100), C22_Sum(env.detections))
        /\ env.detections = <<>> => ret.restriction_score = Whole(0)
        /\ ~FracLess(ret.restriction_score, Whole(0))
        /\ ~FracLess(Whole(100), ret.restriction_score)
        /\ \A i \in DOMAIN env.detections :
               LET base == Whole(C22_BaseWeight(env.detections[i].theme_name))
                   points == C22_Contribution(env.detections[i])
               IN  /\ ~FracLess(points, FracMul(base, Frac(1, 2)))
                   /\ ~FracLess(base, points)

====
